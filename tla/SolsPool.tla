------------------------------ MODULE SolsPool ------------------------------
(***************************************************************************)
(* The secondary market of the Sols pool (pool_singleton_inner_v5.clsp):   *)
(* a verified vault deposits a SmartDeed and is paid in Sols, or returns   *)
(* Sols to the pool's reserve and takes a deed.  With it, the part of the  *)
(* statutes registry (protocol_statutes_inner_v1.clsp) that prices and     *)
(* pauses the collections.                                                 *)
(*                                                                         *)
(* A step is one spend in the block being built.  SOLS_EVIDENCE is an      *)
(* announcement for one pool coin: it stays assertable until that coin is  *)
(* spent or the block closes, even when a later spend of the block changes *)
(* the registry.                                                           *)
(* The market is launched without treasury assets and liabilities and no   *)
(* spend changes either, so the backing is the NAV of the inventory.       *)
(* The pool's puzzle asks for payments and not for where their Sols come   *)
(* from: the coins are those of SolsSwap.                                  *)
(***************************************************************************)
EXTENDS Integers, FiniteSets, Functions

CONSTANTS
  Deed,              \* deed launchers
  Collection,        \* the collections the deeds belong to
  CollectionOf,      \* collection of each deed, in its commitment
  Share,             \* share of each deed in its collection, in its commitment
  ShareDenominator,  \* SHARE_PPM_DENOMINATOR
  FeeDenominator,    \* FEE_BPS_DENOMINATOR
  FeeBps,            \* exchange fee, parameters[5]
  BootstrapValue,    \* BOOTSTRAP_VALUE_MICRO_USD_PER_SOLS
  SolsUnit,          \* SOLS_MOJOS_PER_SOLS
  NavValidity,       \* longest validity of a NAV, parameters[3]
  Listing,           \* the collection records governance enacts
  NoListing,         \* a collection the registry does not hold
  MaxSols,           \* largest total the uint64 field holds
  MaxTime,           \* bound: the clock stops here
  MaxEvidence,       \* bound on the announcements for one pool coin
  MaxVersion,        \* bound on the pool's state version
  MaxRegistry        \* bound on the version of the statutes registry

Time == 0 .. MaxTime

ASSUME DeedAssumption ==
  /\ IsFiniteSet(Deed)
  /\ CollectionOf \in [Deed -> Collection]
  /\ ShareDenominator \in Nat \ {0}
  /\ Share \in [Deed -> 1 .. ShareDenominator]

\* A fee is charged: 100 bps at deployment.
ASSUME MarketAssumption ==
  /\ FeeDenominator \in Nat \ {0}
  /\ FeeBps \in 1 .. FeeDenominator
  /\ BootstrapValue \in Nat \ {0} /\ SolsUnit \in Nat \ {0}
  /\ NavValidity \in Nat

\* valid-collection: statuses 1, 2 and 3 are active, closed and settled.
ASSUME ListingAssumption ==
  /\ Listing \subseteq [nav : Nat \ {0}, ceiling : Nat, version : Nat \ {0},
                        after : Nat, until : Nat, status : 1 .. 3]
  /\ \A l \in Listing : l.ceiling >= l.nav /\ l.until > l.after
  /\ NoListing \notin Listing

ASSUME BoundAssumption == MaxSols \in Nat \ {0} /\ MaxTime \in Nat /\ MaxEvidence \in Nat
                   /\ MaxVersion \in Nat /\ MaxRegistry \in Nat

VARIABLES
  now,       \* timestamp of the current block
  pool,      \* curried state of the pool, with the inventory its root commits to
  listings,  \* collection records of the registry
  paused,    \* pause flag of each collection
  registry,  \* version of the statutes registry, renewed by every update
  evidence   \* SOLS_EVIDENCE announced in the current block for the present pool coin

vars == <<now, pool, listings, paused, registry, evidence>>

----------------------------------------------------------------------------
InventoryRecord == [deed : Deed, value : Nat \ {0}, version : Nat, until : Nat]

Pool == [bootstrap : BOOLEAN, inventory : SUBSET InventoryRecord, nav : Nat, count : Nat,
         total : Nat, reserve : Nat, version : Nat]

\* The content and the version of the registry are part of the announcement.
Evidence == [collection : Collection, listing : Listing, paused : BOOLEAN, registry : Nat]

\* The type invariant.
TypeOK ==
  /\ now \in Time
  /\ pool \in Pool
  /\ listings \in [Collection -> Listing \cup {NoListing}]
  /\ paused \in [Collection -> BOOLEAN]
  /\ registry \in Nat
  /\ evidence \subseteq Evidence

CeilDiv(n, d) == (n + d - 1) \div d

\* Slip: the branches are swapped.
Greater(a, b) == IF a > b THEN a ELSE b

Lesser(a, b) == IF a > b THEN b ELSE a

Circulating == pool.total - pool.reserve

Backing == pool.nav

GovernedValue(l, d) == CeilDiv(l.nav * Share[d], ShareDenominator)

Held == {r.deed : r \in pool.inventory}

NavOf(records) == SumFunction([r \in records |-> r.value])

CollectionHeldValue(c) == NavOf({r \in pool.inventory : CollectionOf[r.deed] = c})

SellerSols(v) ==
  IF pool.bootstrap THEN (v * Circulating) \div Backing
                    ELSE (v * SolsUnit) \div BootstrapValue

ReservePaid(s) == Lesser(pool.reserve - 1, s)

\* Slip: the reserve takes the place of what circulates.
BuyerPrincipalOfReserve(v) == CeilDiv(v * pool.reserve, Backing)

BuyerPrincipal(v) == CeilDiv(v * Circulating, Backing)

----------------------------------------------------------------------------
Init ==
  /\ now = 0
  /\ pool = [bootstrap |-> FALSE, inventory |-> {}, nav |-> 0, count |-> 0,
             total |-> 1, reserve |-> 1, version |-> 1]
  /\ listings = [c \in Collection |-> NoListing]
  /\ paused = [c \in Collection |-> FALSE]
  /\ registry = 1
  /\ evidence = {}

\* Statutes UPDATE of a collection: an executed bill inserts or replaces it.
UpdateCollection(c, l) ==
  /\ registry < MaxRegistry /\ registry' = registry + 1
  /\ listings' = [listings EXCEPT ![c] = l]
  /\ UNCHANGED <<now, pool, paused, evidence>>

\* Statutes UPDATE of a pause record.
UpdatePause(c, flag) ==
  /\ registry < MaxRegistry /\ registry' = registry + 1
  /\ paused' = [paused EXCEPT ![c] = flag]
  /\ UNCHANGED <<now, pool, listings, evidence>>

\* Statutes SOLS_EVIDENCE, for the present pool coin.
SolsEvidence(c) ==
  /\ listings[c] # NoListing
  /\ Cardinality(evidence) < MaxEvidence
  /\ evidence' = evidence \cup {[collection |-> c, listing |-> listings[c],
                                 paused |-> paused[c], registry |-> registry]}
  /\ UNCHANGED <<now, pool, listings, paused, registry>>

\* validate-common: the witnesses match the curried state, and the evidence is
\* unpaused, short enough and valid now (the quote expires with it).
SwapAllowed(e) ==
  /\ pool.nav = NavOf(pool.inventory) /\ pool.count = Cardinality(pool.inventory)
  /\ pool.reserve >= 1 /\ pool.total >= pool.reserve
  /\ ~e.paused
  /\ e.listing.until - e.listing.after <= NavValidity
  /\ e.listing.after <= now /\ now < e.listing.until
  /\ pool.version < MaxVersion

\* DEED_TO_SOLS: deed d is deposited; the reserve pays first, the rest is minted.
DeedToSols(d, e) ==
  LET v == GovernedValue(e.listing, d)
      s == SellerSols(v)
      paid == ReservePaid(s)
  IN /\ SwapAllowed(e)
     /\ e.collection = CollectionOf[d] /\ e.listing.status = 1
     /\ d \notin Held
     /\ CollectionHeldValue(e.collection) + v <= e.listing.ceiling
     /\ pool.bootstrap => Backing # 0
     /\ s > 0
     /\ pool.total + s - paid <= MaxSols
     /\ pool' = [pool EXCEPT
          !.bootstrap = TRUE,
          !.inventory = @ \cup {[deed |-> d, value |-> v, version |-> e.listing.version,
                                 until |-> e.listing.until]},
          !.nav = @ + v, !.count = @ + 1, !.total = @ + s - paid, !.reserve = @ - paid,
          !.version = @ + 1]
     /\ evidence' = {}
     /\ UNCHANGED <<now, listings, paused, registry>>

\* SOLS_TO_DEED: the deed of record r leaves, its principal returns to reserve.
SolsToDeed(r, e) ==
  LET p == BuyerPrincipal(r.value)
  IN /\ SwapAllowed(e)
     /\ e.collection = CollectionOf[r.deed] /\ e.listing.status \in {1, 3}
     /\ r.value = GovernedValue(e.listing, r.deed)
     /\ r.version = e.listing.version /\ r.until = e.listing.until
     /\ pool.count > 0 /\ Backing > 0 /\ Circulating > 0
     /\ p > 0 /\ pool.reserve + p <= pool.total
     /\ pool.nav >= r.value
     /\ pool' = [pool EXCEPT
          !.bootstrap = TRUE,
          !.inventory = @ \ {r}, !.nav = @ - r.value, !.count = @ - 1,
          !.reserve = @ + p, !.version = @ + 1]
     /\ evidence' = {}
     /\ UNCHANGED <<now, listings, paused, registry>>

\* The block closes and its announcements are gone.
NextBlock(t) ==
  /\ t > now \/ t = MaxTime
  /\ now' = t
  /\ evidence' = {}
  /\ UNCHANGED <<pool, listings, paused, registry>>

Governed ==
  \E c \in Collection :
    \/ \E l \in Listing : UpdateCollection(c, l)
    \/ \E flag \in BOOLEAN : UpdatePause(c, flag)

Swap ==
  \E e \in evidence :
    \/ \E d \in Deed : DeedToSols(d, e)
    \/ \E r \in pool.inventory : SolsToDeed(r, e)

Next ==
  \/ Governed
  \/ \E c \in Collection : SolsEvidence(c)
  \/ Swap
  \/ \E t \in Time : NextBlock(t)

Spec == Init /\ [][Next]_vars

----------------------------------------------------------------------------
\* Every spend leaves a state whose inventory the next spend can open: the
\* totals are those of the records, no deed is held twice, and the reserve keeps
\* its anchor within the supply.
PoolOpenable ==
  /\ pool.nav = NavOf(pool.inventory)
  /\ pool.count = Cardinality(pool.inventory)
  /\ Cardinality(Held) = Cardinality(pool.inventory)
  /\ 1 <= pool.reserve /\ pool.reserve <= pool.total /\ pool.total <= MaxSols

\* No spend lowers the backing of a circulating Sols: roundings favour the
\* holders who do not trade.
KeepsNav == pool.bootstrap => Backing' * Circulating >= Backing * Circulating'

NavNeverFalls == [][KeepsNav]_vars

\* Taking a just deposited deed back costs at least what the deposit paid.
CostsRoundTrip ==
  \A r \in pool'.inventory \ pool.inventory :
    BuyerPrincipal(r.value)' >= Circulating' - Circulating

NoFreeRoundTrip == [][CostsRoundTrip]_vars
=============================================================================
