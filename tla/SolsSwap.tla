------------------------------ MODULE SolsSwap ------------------------------
(***************************************************************************)
(* A swap from quote to settlement (sols_pool_v4.py, sols_economics_v3.py, *)
(* sols_swap_v4_driver.py): the market of SolsPool with the coins that the *)
(* swaps move.  Deeds are in vaults or in the pool's custody; Sols are CAT *)
(* coins of the reserve, of vaults, or of ordinary wallets.                *)
(*                                                                         *)
(* A quote is prepared by Python from the state of one moment and signed   *)
(* by the vault's owner; its bundle settles at another moment, if every    *)
(* coin and the registry are still those it was prepared for.  What the    *)
(* pool's puzzle checks again is not repeated here: that it would accept   *)
(* every bundle that settles is ImplementsMarket.                          *)
(* Preparing and signing are one step, for a quote that ages in between    *)
(* never settles.  The reserve's key is external.                          *)
(*                                                                         *)
(* Sols have two more ways than the market's.  The TAIL of the token asks  *)
(* nothing of a spend that says it neither mints nor melts, and does not   *)
(* look at the amount the coin adds or removes.  And the Sols coin of a    *)
(* vault is spent by whoever spends it in a block in which the pool        *)
(* announced a swap, whichever: what it pays goes to the offer puzzle, and *)
(* so to anyone.                                                           *)
(***************************************************************************)
EXTENDS SolsPool

CONSTANTS
  Vault,        \* vaults whose identity is attested
  FirstVault,   \* the vault each deed was delivered to
  Custody,      \* p2_pool_v2, where the pool's deeds are
  Wallet,       \* an owner of Sols that is not a vault
  Expiry,       \* bound: the ends quotes are given
  Payee,        \* bound: where the seller of a deed is paid
  MaxVaultCoin, \* bound: a vault is spent so many times
  MaxQuotes,    \* bound: quotes outstanding
  Taken,        \* bound: the amounts others take from a vault's coin, or remove
  Added,        \* bound: who adds Sols without the pool, and how many
  MaxUngated    \* bound on what is added in all

ASSUME SwapAssumption ==
  /\ FirstVault \in [Deed -> Vault]
  /\ Custody \notin Vault /\ Wallet \notin Vault
  /\ Expiry \subseteq Nat /\ Payee \in [Deed -> SUBSET (Vault \cup {Wallet})]
  /\ MaxVaultCoin \in Nat /\ MaxQuotes \in Nat
  /\ Taken \subseteq Nat \ {0} /\ MaxUngated \in Nat
  /\ Added \subseteq [to : Vault \cup {Wallet}, amount : Nat \ {0}]

VARIABLES
  vaultCoin,  \* the number of the present coin of each vault
  place,      \* where each deed is
  reserve,    \* the coins of the reserve
  purse,      \* the coins of the vaults
  wallets,    \* Sols in ordinary wallets, the fees' receivers included
  quotes,     \* signed quotes that were not given up
  announced,  \* whether the pool announced a swap in the current block
  ungated     \* Sols added and removed by the TAIL without the pool: a history

coinVars == <<reserve, purse, wallets, ungated>>

swapVars == <<vaultCoin, place, quotes, announced, coinVars>>

allVars == <<vars, swapVars>>

----------------------------------------------------------------------------
\* A vault's coin is spent after a swap, which renewed the pool coin of every quote:
\* its identity needs no more than to tell it from the others there are.
CoinName == 0 .. MaxSols + MaxUngated

Sols == [name : CoinName, amount : Nat \ {0}]

VaultSols == [name : CoinName, amount : Nat \ {0}, vault : Vault]

FreeName(coins) == CHOOSE n \in CoinName : \A c \in coins : c.name # n

Amount(coins) == SumFunction([c \in coins |-> c.amount])

\* A swap as the pool's solution states it: pool and vault name the coins it is for,
\* and next the state the pool's new coin is to have.
Deposit ==
  [kind : {"deposit"}, deed : Deed, terms : Evidence, pool : Nat, vault : Vault, coin : Nat,
   next : Pool, until : Nat, sols : Nat, to : Vault \cup {Wallet}]

Purchase ==
  [kind : {"purchase"}, deed : Deed, terms : Evidence, pool : Nat, vault : Vault, coin : Nat,
   next : Pool, until : Nat, principal : Nat, fee : Nat, payment : VaultSols]

\* The type invariant.
SwapTypeOK ==
  /\ TypeOK
  /\ vaultCoin \in [Vault -> 0 .. MaxVaultCoin]
  /\ place \in [Deed -> Vault \cup {Custody}]
  /\ reserve \subseteq Sols
  /\ purse \subseteq VaultSols
  /\ wallets \in Nat
  /\ quotes \subseteq Deposit \cup Purchase
  /\ announced \in BOOLEAN
  /\ ungated \in [added : 0 .. MaxUngated, removed : Nat]

SwapInit ==
  /\ Init
  /\ vaultCoin = [v \in Vault |-> 0]
  /\ place = FirstVault
  /\ reserve = {[name |-> 0, amount |-> 1]}
  /\ purse = {} /\ wallets = 0
  /\ quotes = {}
  /\ announced = FALSE
  /\ ungated = [added |-> 0, removed |-> 0]

----------------------------------------------------------------------------
\* Slip: the roundings are swapped.
DynamicSolsSwapped(value, roundUp) ==
  IF roundUp THEN (value * Circulating) \div Backing
             ELSE CeilDiv(value * Circulating, Backing)

\* sols_economics_v3: prices at the backing of a circulating Sols.
DynamicSols(value, roundUp) ==
  IF roundUp THEN CeilDiv(value * Circulating, Backing)
             ELSE (value * Circulating) \div Backing

Priced == pool.bootstrap /\ Backing > 0 /\ Circulating > 0

\* Slip: the anchor of the reserve is paid out too.
EmptyingReserve(seller) == Lesser(pool.reserve, seller)

ReserveSolsPaid(seller) == Lesser(pool.reserve - 1, seller)

\* quote_deed_to_sols: the reserve pays down to its anchor, then Sols are minted.
DepositQuote(value) ==
  LET seller == IF pool.bootstrap THEN DynamicSols(value, FALSE)
                                  ELSE (value * SolsUnit) \div BootstrapValue
      paid == ReserveSolsPaid(seller)
  IN [seller |-> seller,
      next |-> [pool EXCEPT !.bootstrap = TRUE, !.nav = @ + value, !.count = @ + 1,
                            !.total = @ + (seller - paid), !.reserve = @ - paid]]

\* Slip: the fee rounds down.
FeeFloor(principal) == (principal * FeeBps) \div FeeDenominator

\* fee_split_for_principal, both fees together.
Fee(principal) == CeilDiv(principal * FeeBps, FeeDenominator)

\* quote_sols_to_deed.
PurchaseQuote(value) ==
  LET principal == DynamicSols(value, TRUE)
  IN [principal |-> principal,
      fee |-> Fee(principal),
      next |-> [pool EXCEPT !.bootstrap = TRUE, !.nav = @ - value, !.count = @ - 1,
                            !.reserve = @ + principal]]

\* The registry as the driver reads it, for a collection it holds.
Terms(c) == [collection |-> c, listing |-> listings[c], paused |-> paused[c],
             registry |-> registry]

\* _validate_statutes.
TermsAllow(terms, statuses, until) ==
  /\ terms.listing # NoListing /\ terms.listing.status \in statuses
  /\ ~terms.paused
  /\ terms.listing.until - terms.listing.after <= NavValidity
  /\ 0 < until /\ until <= terms.listing.until

\* The owner signs for the operation, this vault coin and this pool coin.
Issue(q) ==
  /\ Cardinality(quotes) < MaxQuotes
  /\ quotes' = quotes \cup {q}
  /\ UNCHANGED <<vars, vaultCoin, place, announced, coinVars>>

\* prepare_deed_to_sols, and the owner's signature.
PrepareDeedToSols(v, d, to, until) ==
  LET terms == Terms(CollectionOf[d])
      value == GovernedValue(terms.listing, d)
      quote == DepositQuote(value)
      record == [deed |-> d, value |-> value, version |-> terms.listing.version,
                 until |-> terms.listing.until]
  IN /\ TermsAllow(terms, {1}, until)
     /\ place[d] = v /\ d \notin Held
     /\ CollectionHeldValue(CollectionOf[d]) + value <= terms.listing.ceiling
     /\ pool.bootstrap => Priced
     /\ quote.seller > 0
     /\ Issue([kind |-> "deposit", deed |-> d, terms |-> terms, pool |-> pool.version,
               vault |-> v, coin |-> vaultCoin[v], until |-> until,
               sols |-> quote.seller, to |-> to,
               next |-> [quote.next EXCEPT !.inventory = @ \cup {record}, !.version = @ + 1]])

\* prepare_sols_to_deed: a deed whose NAV was renewed cannot be bought any more.
AsListed(r, l) ==
  r.value = GovernedValue(l, r.deed) /\ r.version = l.version /\ r.until = l.until

\* prepare_vault_sols_buyer_offer: one coin of the vault pays the principal and the fees.
BuyerOffer(coin, v, amount) == coin.vault = v /\ coin.amount >= amount

\* prepare_sols_to_deed, with the offer that pays for it.
PrepareSolsToDeed(v, r, coin, until) ==
  LET terms == Terms(CollectionOf[r.deed])
      quote == PurchaseQuote(r.value)
  IN /\ TermsAllow(terms, {1, 3}, until)
     /\ AsListed(r, terms.listing)
     /\ pool.count > 0 /\ r.value <= pool.nav /\ Priced
     /\ 0 < quote.principal /\ quote.principal <= Circulating
     /\ BuyerOffer(coin, v, quote.principal + quote.fee)
     /\ Issue([kind |-> "purchase", deed |-> r.deed, terms |-> terms, pool |-> pool.version,
               vault |-> v, coin |-> vaultCoin[v], until |-> until,
               principal |-> quote.principal, fee |-> quote.fee, payment |-> coin,
               next |-> [quote.next EXCEPT !.inventory = @ \ {r}, !.version = @ + 1]])

GiveUp(q) ==
  /\ quotes' = quotes \ {q}
  /\ UNCHANGED <<vars, vaultCoin, place, announced, coinVars>>

----------------------------------------------------------------------------
\* Slip: the operation does not name the pool coin.
CurrentForAnyPool(q) ==
  /\ vaultCoin[q.vault] = q.coin
  /\ q.terms \in evidence

\* The operation hash names the pool coin, the vault coin and the registry.
Current(q) ==
  /\ pool.version = q.pool
  /\ vaultCoin[q.vault] = q.coin
  /\ q.terms \in evidence

\* The time conditions of the pool's spend.
InTime(q) == q.terms.listing.after <= now /\ now < q.until

\* The spends every swap makes: the pool's coin and the vault's are renewed.
Settle(q) ==
  /\ Current(q) /\ InTime(q)
  /\ pool.version < MaxVersion /\ vaultCoin[q.vault] < MaxVaultCoin
  /\ pool' = q.next
  /\ vaultCoin' = [vaultCoin EXCEPT ![q.vault] = @ + 1]
  /\ quotes' = quotes \ {q}
  /\ evidence' = {} /\ announced' = TRUE
  /\ UNCHANGED <<now, listings, paused, registry, ungated>>

Receive(v, amount) ==
  purse' = purse \cup {[name |-> FreeName(purse), amount |-> amount, vault |-> v]}

Deliver(to, amount) ==
  IF to \in Vault THEN Receive(to, amount) /\ UNCHANGED wallets
                  ELSE wallets' = wallets + amount /\ UNCHANGED purse

\* The deed passes from its vault through its own puzzle, which leads nowhere but
\* to the custody of the pool.
DepositDeed(d, v) ==
  /\ place[d] = v
  /\ place' = [place EXCEPT ![d] = Custody]

\* The custody releases a deed on the pool's announcement.
ReleaseDeed(d, v) ==
  /\ place[d] = Custody
  /\ place' = [place EXCEPT ![d] = v]

\* What the pool announces for the reserve to mint.
Minted(next) == next.total - pool.total

\* One coin has to be the whole reserve; the rest of it is the reserve's new coin.
PayFromReserve(coin, amount, minted) ==
  /\ coin.amount = pool.reserve
  /\ reserve' = (reserve \ {coin}) \cup
       {[name |-> coin.name, amount |-> coin.amount + minted - amount]}

\* _assemble_deed_to_sols_protocol.  The driver does not bound the total, the pool does.
SettleDeedToSols(q, coin) ==
  /\ q.kind = "deposit"
  /\ q.next.total <= MaxSols
  /\ Settle(q)
  /\ DepositDeed(q.deed, q.vault)
  /\ PayFromReserve(coin, q.sols, Minted(q.next))
  /\ Deliver(q.to, q.sols)

\* Slip: the change is not asked for.
PayWithoutChange(coin, amount) ==
  /\ coin \in purse
  /\ purse' = purse \ {coin}

\* The payment coin of a vault: its change goes back to its vault.
Pay(coin, amount) ==
  /\ coin \in purse
  /\ purse' = (purse \ {coin}) \cup
       (IF coin.amount = amount THEN {} ELSE {[coin EXCEPT !.amount = @ - amount]})

\* _sols_payments: the principal is a new coin of the reserve.
Divide(principal, fee) ==
  /\ reserve' = reserve \cup {[name |-> FreeName(reserve), amount |-> principal]}
  /\ wallets' = wallets + fee

\* _assemble_sols_to_deed_protocol, with the buyer's offer.
SettleSolsToDeed(q) ==
  /\ q.kind = "purchase"
  /\ Settle(q)
  /\ ReleaseDeed(q.deed, q.vault)
  /\ Pay(q.payment, q.principal + q.fee)
  /\ Divide(q.principal, q.fee)

----------------------------------------------------------------------------
\* The reserve's key joins its coins, as the next deposit needs.
Consolidate ==
  /\ Cardinality(reserve) > 1
  /\ reserve' = {[name |-> 0, amount |-> Amount(reserve)]}
  /\ UNCHANGED <<vars, vaultCoin, place, quotes, announced, purse, wallets, ungated>>

\* A vault's coin, in the block of a swap: neither the operation nor the payment is
\* signed for.
SpendPurse(coin, amount) ==
  /\ announced
  /\ amount <= coin.amount /\ Pay(coin, amount)
  /\ wallets' = wallets + amount
  /\ UNCHANGED <<vars, vaultCoin, place, quotes, announced, reserve, ungated>>

\* The TAIL with mint_or_melt = 0.
AddUngated(to, amount) ==
  /\ ungated.added + amount <= MaxUngated
  /\ ungated' = [ungated EXCEPT !.added = @ + amount]
  /\ Deliver(to, amount)
  /\ UNCHANGED <<vars, vaultCoin, place, quotes, announced, reserve>>

RemoveUngated(amount) ==
  /\ amount <= wallets
  /\ wallets' = wallets - amount
  /\ ungated' = [ungated EXCEPT !.removed = @ + amount]
  /\ UNCHANGED <<vars, vaultCoin, place, quotes, announced, reserve, purse>>

\* The vault is spent for another purpose, such as the migration of its deeds.
SpendVault(v, deeds, w) ==
  /\ vaultCoin[v] < MaxVaultCoin
  /\ \A d \in deeds : place[d] = v
  /\ vaultCoin' = [vaultCoin EXCEPT ![v] = @ + 1]
  /\ place' = [d \in Deed |-> IF d \in deeds THEN w ELSE place[d]]
  /\ UNCHANGED <<vars, quotes, announced, coinVars>>

Market ==
  /\ \/ Governed /\ UNCHANGED announced
     \/ (\E c \in Collection : SolsEvidence(c)) /\ UNCHANGED announced
     \/ (\E t \in Time : NextBlock(t)) /\ announced' = FALSE
  /\ UNCHANGED <<vaultCoin, place, quotes, coinVars>>

Prepare ==
  \E v \in Vault, until \in Expiry :
    \/ \E d \in Deed : \E to \in Payee[d] : PrepareDeedToSols(v, d, to, until)
    \/ \E r \in pool.inventory, coin \in purse : PrepareSolsToDeed(v, r, coin, until)

SwapNext ==
  \/ Market
  \/ Prepare
  \/ \E q \in quotes :
       \/ \E coin \in reserve : SettleDeedToSols(q, coin)
       \/ SettleSolsToDeed(q)
       \/ GiveUp(q)
  \/ Consolidate
  \/ \E amount \in Taken : (\E coin \in purse : SpendPurse(coin, amount)) \/ RemoveUngated(amount)
  \/ \E a \in Added : AddUngated(a.to, a.amount)
  \/ \E v, w \in Vault, deeds \in SUBSET Deed : SpendVault(v, deeds, w)

SwapSpec == SwapInit /\ [][SwapNext]_allVars

----------------------------------------------------------------------------
\* The inventory the pool commits to is what its custody holds.
InventoryIsHeld == Held = {d \in Deed : place[d] = Custody}

\* The coins of the reserve add up to the books of the pool.  So do all the others to
\* what it takes to circulate, except for what the TAIL added and removed unasked.
BooksMatchCoins ==
  /\ Amount(reserve) = pool.reserve
  /\ Amount(purse) + wallets + ungated.removed = Circulating + ungated.added

\* Once the pool has opened it keeps backing and circulating Sols, as long as none but
\* its own were ever added: the fee keeps the last deed in.  Without either,
\* seller-sols divides by zero or pays nothing, and no deposit can reopen the pool.
NeverDrained ==
  (pool.bootstrap /\ ungated.added = 0) => Backing > 0 /\ Circulating > 0

\* What Python prepares the pool's puzzle accepts: a settled quote is a swap of the
\* market, and nothing else changes the pool.
ImplementsMarket == Spec
=============================================================================
