# Solslot protocol: TLA+ specifications

Specifications of the on-chain state machines of the Solslot protocol, the TLC
configurations that check them on small instances, and proofs that the TLA+ proof
system checks for all instances. The reference is the code: the Chialisp puzzles in
`src/solslot_puzzles/*.clsp`, and the Python drivers where the puzzles leave a choice
to them.

## 1. The system

Solslot keeps all of its state in coins. A *singleton* is a coin that each spend
replaces by one successor with new curried state; a *spend* is valid when every
condition its puzzle emits holds. Spends interact in three ways:

* **announcements**: a spend creates one, any number of spends of the same block may
  assert it. It is neither consumed nor addressed.
* **messages** (`SEND_MESSAGE` / `RECEIVE_MESSAGE`): both sides must be in the block and pair
  one to one, and the mode says what a message commits to. The tracker's commits to its sender
  and to no receiver, so any coin may take it.
* **concurrency conditions**: the other spend must be in the block.
* **time conditions**: `ASSERT_SECONDS_ABSOLUTE` (not before), `ASSERT_BEFORE_…` (not
  after), `…_RELATIVE` (counted from the coin's own creation).

No process runs by itself. What makes the protocol hard is the order of spends, several
spends in one block, evidence announced before the state changes again, deadlines that
are somebody's earliest and another's latest time, and singletons that only a matching
spend of another singleton can move on.

### Inventory

| Component (`src/solslot_puzzles/`) | State | Operations | What makes it correct |
|---|---|---|---|
| **SGT governance** `governance_singleton_inner_v2`, `sgt_free_inner`, `sgt_locked_inner` | open bill, tally, deadline, parameter snapshot; per coin owner and lock | PROPOSE, VOTE, EXECUTE, EXPIRE; TRANSFER, LOCK, RELEASE_DEADLINE, RELEASE_EXEC | a vote is backed by SGT that cannot vote again; votes end; locks return |
| **Statutes registry** `protocol_statutes_inner_v1` | nine parameters, collections, pauses, oracles, routes, liquidity caps | UPDATE (one entry, by an executed bill), SOLS_, GOVERNANCE_ and other evidence | records stay valid together; evidence is current when it is used |
| **Sols pool market** `pool_singleton_inner_v5`, `sols_pool_v4.py`, `sols_economics_v3.py`, `sols_swap_v4_driver.py`, `vault_sols_inner_v1` | inventory root, NAV, count, total and reserve Sols, bootstrap flag; the Sols coins of reserve and vaults; signed quotes | DEED_TO_SOLS, SOLS_TO_DEED; quote, sign, settle | backing per Sols never falls; the committed inventory can always be opened and is what custody holds; a quote in time is accepted; coins match the books |
| **Admin authority and identities** `admin_authority_v4_inner`, `admin_identity_*`, `admin_authority_v3_driver.py` | three custody hashes, version, pending change; per identity its custody | OPERATIONAL, PREPARE ×3, CANCEL, COMPLETE, identity finish | no key changes without its delay, veto and approvals; records mirror the identities |
| **Vault** `vault_singleton_inner_v2`, `p2_vault` | owner key and its kind, member root, identity attestation; per deed its custody | deposit, release, swap, redemption, SGT lock, migration, new keys, attestation | a deed leaves only as its present owner signed for the present coin |
| **Inventory and primary purchase** `mint_offer_inventory_available_v3`, `mint_offer_delegate_v6` | available, reserved (purchase, expiry), delivered | reserve, deliver, time out, extend, release; 2-of-3 validators | a deed is delivered once, for a payment that is paid once |
| **Voucher presale** `voucher_presale_series_v2`, `voucher_nft_inner_v3`, `voucher_payment_escrow_v2` | series counters and status, voucher, escrow | sell, refund, cancel, expire, redeem | series, voucher and escrow end in the same way |
| **Settlement receipts** `stripe_settlement_receipt_v1`, `purchase_batch_settlement_receipt_v1` | amount, buyer, expiry | assert before expiry, retire after | one receipt releases one purchase |
| **SGT reserve, sales, grants** `sgt_reserve_inner_v1`, `sgt_sale_inner_v1` | reserve coins, open sales | LOCK, SALE, GRANT; TAKE, EXTERNAL_TAKE, RETURN | units are conserved; SGT leaves for an executed bill; a delivery is paid for; a sale ends |
| **Funded redemption** `redemption_treasury_v1`, `p2_deed_redemption_v1` | treasury coins, redemption offers | fund, redeem | offers are funded exactly, each deed is paid once |
| **Registries** `property_registry_inner`, `collection_nav_registry_inner`, `protocol_config_inner`, `vault_version_registry_inner` | roots, versions | register, update, by governance or authority messages | no identifier is registered twice; versions grow |
| **Mint proposal, quorum DID** `mint_proposal_inner_v2`, `quorum_did_inner`, `mint_publish_driver.py` | proposal state | register, publish, mint | a deed is minted only by its executed bill |
| **Deeds and custody** `smart_deed_inner_v2`, `p2_pool_v2`, `p2_deed_settlement` | owner vault or pool, commitment | deposit, release, settle | a deed is in one place |
| **Legacy** pool v3, governance v1, authorities v2 and v3 | | | superseded, not deployed |
| **Genesis, attestations, schemas, scripts** | none at run time | construct, sign, encode | their results are the initial states of the modules |

Who talks to whom: the admin authority approves a bill by announcement (GOVP) → a holder
locks SGT and PROPOSEs with the statutes' GOVERNANCE_EVIDENCE → holders LOCK and VOTE →
EXECUTE sends a message for the bill's receiver (statutes, pool, treasury), asserts the
spend of another (property registry, reserve), or announces the version of a vault → the statutes' new record prices
and pauses the pool through SOLS_EVIDENCE → a vault swaps a deed with the pool.

## 2. Modules

| Module | Models | Status |
|---|---|---|
| `SGTGovernance` | tracker, free and locked SGT, voting parameters of the statutes, the targets that take a bill | every spend of the three puzzles |
| `Ballot` | what other contracts see of the tracker: an open bill, whether it passed, which ends were announced | abstract; implemented by `SGTGovernance`, used by `SGTReserve`, `Governed`, `Redemption` and `Mint` |
| `SGTReserve` | reserve coins, their locked form, sale coins, the treasury's payments | every spend of the two puzzles |
| `SolsPool` | both swaps of pool v5, and the collection and pause records that price them | every spend of the puzzle; implemented by `SolsSwap` |
| `SolsSwap` | quotes, their signatures and settlement, with the deeds, reserve coins and vault Sols that a swap moves; the other ways of the token | every step of a swap, and of the TAIL and the vault's Sols coin |
| `AdminAuthority` | authority v4 and the three identities with their custody policies | every spend of the bundles its driver builds |
| `KeyChange` | what the authority promises of its slots' keys: requested, then vetoed or granted after the wait, one at a time | abstract; implemented by `AdminAuthority` |
| `Exchange` | what a purchase promises: paid, then delivered or refunded, an item in one trade at most | abstract; implemented by `Presale` |
| `PurchaseArtifact` | what a buyer authorizes: the amounts of a purchase, batches, oracle rounds, provider's evidence, receipts | the dataclasses and their checks as operators; no state |
| `PrimaryPurchase` | inventory, reservations, direct sales singly and in batches, settlement receipts | every spend of the puzzles; no behaviour of its own, extended by `Presale` |
| `Presale` | series, vouchers and their payments, on top of the inventory | every transition of the series, every end of a voucher |
| `Statutes` | the six tables with their validity checks, one-entry updates, evidence | every spend of the puzzle but GOVERNANCE_EVIDENCE, which is in `SGTGovernance` |
| `VersionRegistry` | code, parameters and version that vaults should run | both spends of the puzzle |
| `Governed` | the ballot next to `Statutes` and `VersionRegistry`, with bills drafted earlier than they are executed | composition |
| `Vault` | vaults, their owners' signatures, the deeds in `p2_vault` | every spend case but 'a' |
| `Redemption` | treasury, fundings and offers next to `Vault` and the ballot; the driver's allocation | every spend of the two puzzles |
| `Mint` | mint proposals, deed launchers, the property registry and the quorum DID next to the ballot | every spend of the four puzzles |
| `MC*` | the instances that TLC checks | |
| `*_proofs` | theorems about the module of that name; those about `SolsPool` are in `SolsSwap_proofs` | |

### What a step is

* In `SGTGovernance`, `SGTReserve`, `SolsPool`, `SolsSwap`, `Governed` and `Mint` a step is one spend **inside the block being built**.
  Variable `block` (and `evidence` in `SolsPool`) holds the announcements of that block;
  `NextBlock` advances the time and drops them. This is what tells an announcement from a
  message: two spends of one block may use the same announcement, and evidence survives a
  later spend that makes it stale.
* Spends that a message or a concurrency condition pairs are one step: a swap with the
  vault, deed and offer spends of its bundle, the authority with the identities it
  addresses, EXECUTE with the target's spend. Where EXECUTE is not bound to its target, the
  same action may also leave the target as it is: another coin took the message. In `Presale` and `Redemption` a step is a
  whole bundle, and the module says which coins may be missing from it.
* A coin is identified by what its puzzle commits to. SGT is a fixed set `Mojo` of units
  (CAT2 conserves it and its TAIL never mints again), each free or locked; a spend moves
  any set of equal units, which is what splitting and merging coins allows.
* A hash commitment is the value it commits to: a bill is its own hash, the pool's state
  holds the inventory its root commits to, a custody hash is the policy it is the root of.
* Signatures and votes are given whenever they are asked for. Nothing assumes that an
  owner or an administrator acts, or refrains.

### SGTGovernance

`tracker` is the curried mutable state (`PROPOSAL_HASH`, `VOTE_TALLY`, `VOTING_DEADLINE`
and the snapshot of quorum, window and stake), `sgt` the state of every unit, `policy` the
voting parameters in the statutes, `targets` the version of each receiver's state. A bill
lists in `from` the receiver states whose own recomputation reproduces the bill's message.
`CarryOut` is the target's spend in the block of the EXECUTE, which `TargetAccepts` guards.
Only the bills of `BoundToTarget` need it: MINT asserts the announcement of the registration,
SGT_SALE and SGT_GRANT the puzzle of the reserve. Every other EXECUTE sends a message in mode
0x10, which names no receiver, or announces: it ends the vote as soon as any coin takes the
message, and nothing need be carried out. `TargetMoves` is
the target being spent for reasons of its own (the property registry by any
registration); which targets do that is the constant `Moving`.

The tracker, like every singleton, may be spent several times in one block, and the
announcements of the block outlive each of these spends. Two things then go wrong that the
properties have to name, so `history`, which no action reads, keeps them for the open vote:
*twice*, a LOCK announcement was counted twice; *reopened*, the block of its PROPOSE had ended
another vote before. After an EXECUTE that changes the parameters, evidence announced earlier in
the block still opens a vote under the old ones; and after an EXPIRE, the same bill may be locked
for and proposed again, while the EXEC announcement of its first vote releases the new
locks until the block ends. `BegunAfresh` is a vote that was not reopened, `CountedOnce` one that
moreover counted no announcement twice. The properties are unconditional otherwise.

| Action | Code |
|---|---|
| `Transfer`, `Lock` | the two branches of `sgt_free_inner` |
| `ReleaseDeadline`, `ReleaseExec` | the two modes of `sgt_locked_inner` |
| `AdminApprove`, `GovernanceEvidence` | the announcements PROPOSE asserts |
| `Propose`, `Vote`, `Execute`, `Expire` | the tracker's four spend cases |

`Abstract` maps the tracker to `Ballot`: the open bill, whether its tally meets the quorum
and the ends announced in the block. `ImplementsBallot` says that a proposal that has
passed stays passed, passes before its deadline, and ends once, after it.

Not modelled: the KOS co-signature of a MINT (taken as given), the text of the bills, and the transition
marker that every transfer carries (any owner's puzzle can emit it).

### SGTReserve

`coins` is the set of coins that hold the issuance: a reserve coin, one locked behind a
bill, a sale coin, or one in the vault it was allocated or delivered to. The reserve has no
key; it is spent by whoever gives the bill. It never merges coins, so a coin is a set of
units and each allocation leaves a smaller one. `block` holds the announcements: the
admins' approvals, the payments (bound to the id of one sale coin) and the external
receipts (bound to the purchase). The tracker is `Ballot`; its votes are given freely.

| Action | Code |
|---|---|
| `Sponsor`, `Allocate` | LOCK, SALE and GRANT of `sgt_reserve_inner_v1` |
| `Release` | both modes of `sgt_locked_inner` |
| `Take`, `ExternalTake`, `Return` | the three modes of `sgt_sale_inner_v1` |
| `Pay`, `Receipt`, `AdminApprove` | the announcements those assert |
| `Propose`, `CountVotes`, `Expire` | steps of the ballot |
| `Execute`, `ExecuteAllocating` | EXECUTE next to another spend of the reserve, or in one bundle with the allocation, which may first release the locked coin (`build_reserve_execute_spends`) |

`Execute` and `ExecuteAllocating` are two actions because EXECUTE and the allocation assert
each other: neither can come first. A redemption needs no reserve coin; the spend of its
treasury is taken as available.

### SolsPool

`pool` is the curried state of `pool_singleton_inner_v5`; `listings` and `paused` are the
registry's records; `evidence` holds what SOLS_EVIDENCE announced for the present pool
coin. The arithmetic is the code's: floors for payouts, ceilings for principals, values and
fees, the reserve paid before minting, its last mojo kept as anchor. The puzzle asks for the
payment of a deed and not for where those Sols come from, so the last deed can be bought
with Sols that the pool never issued; which coins there are is in `SolsSwap`. Treasury assets and
liabilities are 0 at launch and no spend changes either, so they are left out. The
coins a swap moves are in `SolsSwap`; no run checks `SolsPool` by itself.

### SolsSwap

`place` is where each deed is (a vault, or `p2_pool_v2`), `reserve` and `purse` the CAT coins
of the reserve and of the vaults, `wallets` the Sols of everybody else, `vaultCoin` the number
of each vault's present coin, `quotes` the operations that owners have signed. A quote holds
what the operation hash commits to: the pool coin, the vault coin, the registry's terms, and
the state the pool is to have next, as Python computed it. `announced` says whether the
pool announced a swap in this block; `ungated` counts what the TAIL added and removed without
the pool.

| Action | Code |
|---|---|
| `PrepareDeedToSols`, `PrepareSolsToDeed` | `prepare_deed_to_sols` and `prepare_sols_to_deed` with the quotes of `sols_economics_v3.py`, `prepare_vault_sols_buyer_offer`, and the owner's signature |
| `SettleDeedToSols`, `SettleSolsToDeed` | the two bundles of `sols_swap_v4_driver.py`: pool, vault, deed, custody and Sols coins |
| `SpendPurse` | a vault's Sols coin in a block in which the pool announced a swap: operation and payment are in its unsigned solution (`vault_sols_inner_v1.clsp:64-113`), and the payment goes to the offer puzzle, so to anyone; the change returns to the vault |
| `AddUngated`, `RemoveUngated` | the TAIL with `mint_or_melt` = 0, which returns no condition and ignores the delta (`pool_token_tail.clsp:57-63, 88-90`) |
| `Consolidate`, `SpendVault`, `GiveUp` | the reserve's key, another spend of a vault, an owner who does not submit |
| `Market` | the registry's updates, its evidence and the next block |

Settling asks for the coins the quote names and not for what the pool's puzzle computes: the
new state is the quote's. That the puzzle computes the same, from the same guards, is
`ImplementsMarket`, the refinement of `SolsPool`'s specification. A purchase leaves its
principal in a coin of its own, whereas a deposit wants the reserve in one coin; `Consolidate`
is what has to happen in between, by a key this repository does not hold. The driver does not
bound the total by 64 bits, the pool does. Sols going from a wallet into a vault are not
modelled: a vault's Sols here come from selling a deed or from `AddUngated`.

### AdminAuthority

`authority` holds the curried custody record, version and pending fields, `identity` the
custody, generation and age of each identity coin. A custody is `Settled` on a credential
or `Intermediate`: 1-of-2 of the old daily path and the timelocked completion member.
`Complete` joins the authority to the identity's finish; `FinishAlone` is the same finish
spend by itself, which is valid because it neither sends nor receives a message.

The guards of a begun spend are the checks of the puzzles and of the driver's builders, which
keep their names: `build_authority_prepare_mips_spend(kind, s)` is the set of pairs of slots
whose proof the driver builds, `Approvers(kind, s)` the set the authority accepts (the proofs
show that no pair is built in vain: `ApproversAgree`), and `CanChange`, `Between` and `Change`
are the checks, the intermediate custody and the pending fields of
`build_identity_vault_transition`.

`KeyChange` sees the credential of each slot (`CredentialOf`) and the identities on their way
as requests (`OnTheWay`), ready when their coin is as old as the timelock. A preparation
requests, CANCEL vetoes, the identity's finish grants, with the authority or alone; operational
spends, and what the authority records, are invisible to it.

### PrimaryPurchase and Presale

`inventory` is where each deed is, `receipts` the receipt coins of direct purchases,
`payment` what became of the money or the escrow of each purchase, `series` the curried
state of the series and `voucher` the voucher of each purchase. A purchase is its
`PurchaseArtifactV3`, which every coin of a bundle commits to.

| Action | Code |
|---|---|
| `Reserve`, `Extend`, `TimeOut`, `ReleaseFailure` | the reservation of `mint_offer_inventory_available_v3` and three modes of `mint_offer_delegate_v6` |
| `DeliverNative` | MODE_DIRECT for one deed or a batch (`build_native_primary_*_offer_v5`) |
| `FundReceipt`, `SettleReceipt` | a receipt coin, and its one spend with the deeds that join it in MODE_EXTERNAL |
| `DeliverUnbound` | MODE_EXTERNAL or MODE_VOUCHER on the announcements of any coins: nobody need sign it, and receipt, voucher and payment stay as they are |
| `Sell`, `Launch`, `Cancel` | SALE, LAUNCH and CANCEL of the series |
| `EndVoucher` | REDEEM and REFUND of the series with the coins that join it (`build_*_voucher_terminal_spends`) |

The puzzles bind the coins of a bundle in one direction only. The voucher asks for the
series, the payment for the series and the voucher, an escrow that is redeemed for the deed; the
series asks for none of them, and a receipt does not ask for its deeds. The deed asks for
announcements of coins that its solution names, by ids and messages that it does not check
against anything, and in XCH for its price from the offer puzzle and not from the escrow. So a
reserved deed can leave on announcements that anybody makes (`DeliverUnbound`), or next to a
refund: `InExchange` is the one bundle in which it leaves for its voucher and its payment,
`PaysSeller` says when the sellers are paid, and `unbound` holds the purchases whose deed
left otherwise. Nothing keeps that from a purchase whose parties use the drivers only, so it
is open to all.

`Bundle` is what the puzzles allow of a voucher's end and `Whole` what the drivers
build. The constant `Driven` holds the purchases whose vouchers and receipts are only spent in
the drivers' bundles: for those voucher and payment end together, for the others only what the
puzzles see to. `Trades`, over which `ImplementsExchange` speaks, are the driven purchases and
those paid in XCH or a CAT.

What the properties say of an unbound delivery: DeliveredIsPaid that the deed is still the one
that was reserved, and nothing of the money; RevenueExact that on a chain rail its price was paid
all the same, by somebody (`SoldFor`); ImplementsExchange that the purchase, whose deed is gone,
never takes its payment: it stays open or is refunded.

`PurchaseArtifact` computes what a purchase is due: the fee and the asset amount rounded up,
the median of an oracle round, the sum over a batch. `revenue` adds up what the sellers were
paid on each rail: an offer's amount, an escrow's, or the amount a settled receipt states.
Evidence is what a provider reported of a payment (amount, surcharge, refunds, dispute); the
receipt of one card payment looks at all of it, that of a batch at the amount and the surcharge
only, and the other external receipt at none. Issuing a voucher differs by rail: the XCH
builder takes an offer, the Stripe builder checks the purchase before it issues, the Base
builder does not, while the builder that ends a Base voucher does: a Base voucher whose
purchase was quoted badly could be issued and not be ended by the driver.

What voucher and payment assert is taken to come from the series, the voucher and the payment
issued together; what the deed asserts is not. An expired receipt can never be spent and is dropped. Money collected off chain is
an input: what a provider reports of it is nondeterministic. The authorization that funds a Base
purchase (`voucher_base_result_authorization_v2`) is not modelled.

### Statutes, VersionRegistry and Governed

`statutes` is the curried state: six tables and the version. A record keeps the fields the
checks compare. A bill of a change carries the state before and after (`Mutation`), as
`build_parameter_mutation` computes it, and `Update` recomputes it from the state it finds.
`registry` holds code, parameters and version; `approved` the approvals of this block.

| Action | Code |
|---|---|
| `ReadStatutes` | EVIDENCE and SOLS_EVIDENCE |
| `DraftStatute`, `DraftVersion` | the drivers that prepare a bill; a vault version may be any positive one (`sgt_driver.py:679-708`, `governance_singleton_inner_v2.clsp:448-454`) |
| `Propose`, `MeetQuorum`, `Execute`, `Expire` | the tracker's spends; EXECUTE of a statutes bill with the UPDATE or, the message having no receiver, without; of a code bill with the announcement for the registry |
| `AuthorityApproves`, `PublishParams` | the administrators' fast track |
| `PublishCode` | the routine path |

`draft` is one slot: since anybody may draft at any moment, a second slot adds no order of
drafting, proposing and executing. `seen`, the registry a code bill was drafted from, is not
in the bill's message; it is there to state `VersionNamesState` and `CodeIsRatified`. Both
protect a bill that was drafted for the version after the one it saw: it is void when anything
was published in between. A bill for a later version has no such protection and overwrites
whatever is there when its version comes up, which the instance contains.
The consumer that SOLS_EVIDENCE names is left out. `BillsConclude` is about every bill: a
statutes bill that its registry has overtaken is still closed, by any coin that takes its
message, and leaves the statutes as they are.

### Vault and Redemption

`vault` is the present coin of each vault with its curried owner, `place` where each deed
is, `signed` every signature ever given, so that it can be used late. `treasury` holds the
deposits, `funded` each funding with the offers that are still open. An action of `Vault` is
one spend case with the `p2_vault` spends that follow its announcement, none included: 'i'
asserts the announcement of a coin that its unsigned solution names, and needs no deed.

| Action | Code |
|---|---|
| `Sign` | the owner's AGG_SIG_ME or secp signature over the message of one spend case |
| `DepositToPool` … `UpdateIdentity` | spend cases 'o' 'i' 'v' 'm' 's' 'k' 'z' |
| `AcceptRedemption` | 'd', with the offer it accepts or without |
| `Deposit`, `Propose`, `MeetQuorum`, `Expire`, `Fund` | payments to the treasury, the bill, and EXECUTE with the treasury's spend, or closed by another coin that takes the message with nothing funded |
| `TakeSettled`, `RetireSettled` | a deed at the open settlement puzzle, taken by anyone or retired against its offer |

Case 'a' is left out because it waits for an announcement of pool v3 that pool v5 does not
make. The pool of 's' is external. `Attested` are the vaults after 'z'. The ±120 s window of
some cases compares the clock with a time the spender supplies and is left out. Ids of
settlements and coins of deeds are abstracted into the plan and the place.
`AllocateSettlement` is the driver's largest-remainder rule.

### Mint

A deed has one launcher coin, one full puzzle hash and one proposal, so one name stands for
all three. `proposal` holds the proposal's state and the registry its bill names,
`launcher` the deed's coin, `registry` the registered ids, `block` what was announced: a
registration with the registry it was made in, the deeds the DID announced, the launchers
that named their own deed. The tracker is `Ballot` with bills of a deed and a registry state.

| Action | Code |
|---|---|
| `Publish`, `ProposeAgain` | the bundle of `mint_publish_driver.py`; PROPOSE alone, of the same bill or one for the present registry |
| `MeetQuorum`, `Expire`, `Execute` | the ballot, and EXECUTE of a MINT paired with `quorum_did_inner` |
| `Register` | `property_registry_inner` |
| `Launch` | `singleton_launcher_with_did`, naming any deed the DID announced |
| `Approve`, `Cancel`, `ExecuteProposal` | the transitions of `mint_proposal_inner_v2` |

Every transition leaves DRAFT, so the state version adds nothing and is left out. The
signatures of the owner, the governance member and the registry's key, the administrators'
approval and the co-signature of EXECUTE are given whenever asked for. A launcher's amount
and key-value list are those of the driver. A launched deed is an available item of
`PrimaryPurchase`.

## 3. Runs

| Run | Shows | Bounds, and why they do |
|---|---|---|
| `votes` | TallyBacked, SupplyBoundsTally, SnapshotCurrent, VotesStayLocked, ImplementsBallot, and LocksReturn and FailedVoteClears under `FairSpec` | 2 units of one holder, a bill that lowers the quorum from all units to half and the mint bill of a registry that moves; time to 3 with windows of 2; two tracker spends a block and tallies to 3, more than the supply: two votes can follow one another, also on the same bill and within one block, end below and at quorum, with and without their target, one lock may be counted twice. Evidence, EXECUTE and PROPOSE on the old evidence fit into one block, and so do EXPIRE, a new lock, PROPOSE and the release of that lock: without `BegunAfresh`, TLC finds SnapshotCurrent and VotesStayLocked violated here |
| `conclude` | VotesConclude violated | two units, one mint bill for the first registry state, a registry that moves |
| `shared_lock` | TallyWithinSupply violated | two tracker spends a block, 2 units, 2 holders |
| `market` | PoolOpenable, NeverDrained, InventoryIsHeld, BooksMatchCoins, NavNeverFalls, NoFreeRoundTrip, ImplementsMarket | two deeds of 5 and 3 tenths, one sold for Sols of another vault and one for a wallet's; listings priced 9 and 7 so that values, payouts and principals all round; active, settled and revalued; two vaults, each spent twice, two quotes at a time that end at 2, two registry updates, five swaps, at most 14 Sols of the pool's; 5 added once to a vault by the TAIL, which is enough to buy the last deed, and 6 taken from a vault's coin or removed: a quote overtaken by a swap, by a new price, by a vault's other spend and by the loss of its payment coin, a deposit paid from reserve and by minting, a purchase with and without change, and a pool that loses its last deed |
| `keys` | Mirror, VetoOpen, OthersHeld, ImplementsKeyChange, and IdentitySettles under `FairSpec` | three slots, a spare daily and a spare recovery key, delays 1 and 2, spends begun up to version 5, time to 5: two changes after one another, of one slot or two |
| `pending` | PendingResolves violated | as `keys`, time to 4, two begun spends |
| `allocate` | CoinsPartition, SalesPaid, LockedForItsBill, and SalesEnd under `FairSpec` | two units; a sale of one unit on each rail, a grant of two, a redemption; time to 2, sales expire at 2: an allocation with and without a remainder, a sale split into two coins, one taken and one returned |
| `allocated` | LeavesOnlyExecuted violated | a grant and a redemption |
| `presale` | DeliveredIsPaid, OutcomesAgree, SeriesAccounts, RevenueExact, ImplementsExchange, and LiveSettles under `FairSpec` | on one deed a voucher paid in XCH, a voucher paid by card and a direct card sale, which is batched with the second deed; on that an XCH sale and an artifact at a price the deed no longer has. The XCH voucher and the XCH sales are bound by the puzzles alone. Prices of which each fee and asset amount is rounded; reports with and without a surcharge, short of the price, refunded, disputed, unfinished; two of the series; deeds of both that leave unbound; the rails are stripe and xch only, the others being covered by the proofs; one receipt at a time, time to 3 so that quotes, reservations, the sale window, both launch times and the delivery window all end within it |
| `governed` | TablesValid, EvidenceIsCurrent, VersionNamesState, CodeIsRatified, and BillsConclude under `FairSpec` | a change of a fee share, of the quorum, of a collection and of a pause; two codes and two sets of parameters; bills and approvals of versions 1 to 3 (`Contents`), so one that skips a version; one evidence and one fast-track approval a block, evidence of the two entries `Entries`; time to 2: bills overtaken by each other and by the fast track, and a bill that overwrites what the fast track published |
| `redeem` | PayoutsExact, LeavesAsAnnounced; AllocationIsFair is evaluated as an assumption | an attested and a fresh vault, a BLS and a secp key, two deeds, plans of both deeds with a rest, of one deed, and one that does not add up; two signatures in all, each vault spent twice, time to 2: two fundings of one deed, an executed bill that funds nothing, two deeds that follow one migration, a signature used before and after a spend, and a rotation |
| `mint` | OneDeedPerProperty, ExecutedWasVoted, MintedOnRegistration | two deeds of one property and a deed of another; time to 3: two votes with different ends, registrations before, between and after them, a bill proposed again for a newer registry, a launch in the block of the end, of another end, or never |

The types of each module are proved (`TypeCorrect`), and a few further parts of the inductive
invariants have been checked by TLC on the same instances before they were proved.

The caps are `MaxTime` (clock and deadlines), `MaxVersion` (how often a target moves, the
pool's state version, the version at which the authority still begins something, the vault
registry's version; the statutes' version is bounded by the votes that fit the clock),
`MaxTally` (above the supply, so that the supply can be passed), `TrackerSpendsPerBlock` (two: the
second spend is what a block's announcements can surprise),
`MaxEvidence` (announcements for one pool coin, or evidence per block), `MaxPayments` (payments of one sale),
`MaxReceipts` (receipt coins at a time), `MaxApproved` (fast-track approvals per block),
`MaxCoin` and `MaxVaultCoin` (spends of a vault), `MaxRegistry` (updates of the registry the pool reads), `MaxQuotes` (quotes outstanding), `MaxSigned` (signatures in all), `Added` and
`MaxUngated` (who adds Sols by the TAIL, how many and in all), `Taken` (what is taken from a vault's coin),
`Content` (what a vault version may hold) and the two sets `Asked`
(what evidence or signatures are asked for). Where a cap stops the clock, the last block repeats, so
that a lock or a delay that ends at the cap can still be acted on; no vote and no change is begun whose
end would lie past it.

`shared_lock` is the statement of the header without the hypothesis of `votes`: one lock
counted twice. `conclude` has one tracker spend a block because its trace needs no more.

### Fairness

Nobody is obliged to spend, so fairness is stated only for blocks and for spends that need
no signature and that somebody gains from: the next block, EXECUTE and EXPIRE after the deadline (a message without a receiver is taken by any coin),
the release of an overdue lock by deadline and the return of an expired sale (the puzzle fixes their outcome), an identity's finish and the authority's COMPLETE after
the delay. PROPOSE, VOTE, swaps, key changes and approvals have none. Weak fairness is
enough, since each of these stays enabled until it is taken or another spend has made it
needless. EXECUTE of a MINT needs a co-signature, so its fairness is more than the code grants;
LocksReturn and FailedVoteClears do not rest on it. `CompletionSpec` of `AdminAuthority` asks that COMPLETE, the only spend the
authority's header names, is not put off, and does not ask that anybody finishes an
identity by itself. In `Presale` the next block and, for a driven voucher, the refund after
the delivery window are fair: it needs two validators, who hold the protocol's own keys, and
no buyer. In `Governed` the next block, EXECUTE and EXPIRE are. The runs `presale` and
`governed` say `CHECK_DEADLOCK FALSE`: their clocks are capped, and once everything is
decided nobody need spend. Every other run checks for deadlock.

### Where the code and its documents disagree

1. **One lock, two votes** (`shared_lock`). VOTE asserts the LOCK announcement; two VOTEs,
   or the PROPOSE and a VOTE, of one block assert the same one. The tally can pass
   SGT_TOTAL_SUPPLY, which the header of `governance_singleton_inner_v2.clsp` (7) excludes.
2. **A stranded bill** (`conclude`). At quorum EXPIRE is closed, and EXECUTE of a MINT asserts
   the announcement of the registration in the registry state the bill was made for
   (`governance_singleton_inner_v2.clsp:615`), which no longer comes once another property was
   registered. `known-bill-tag` (412) is meant to exclude this, and does for malformed bills
   only. The same holds of a reserve bill whose coin is gone; the bills that are messages end
   by any coin that takes the message (`BillsConclude`).
3. **A finish without the authority** (`pending`). It spends the coin COMPLETE and CANCEL
   must be concurrent with; the authority then stays pending, and `OthersHeld` shows what
   that means for the other slots. The header of `admin_authority_v4_inner.clsp` (12) calls
   completion permissionless.
4. **A failed bill allocates** (`allocated`). EXPIRE announces EXEC so that locks can be
   released, in the same words as EXECUTE
   (`governance_singleton_inner_v2.clsp:750`), and SALE and GRANT assert nothing else of the
   tracker. The header of `sgt_reserve_inner_v1.clsp` (5) says SGT leaves only after EXECUTE.

The next four show in runs that pass, whose properties set them aside or whose actions contain
them:

5. **Sols without the pool** (`market`). The TAIL with `mint_or_melt` = 0 asks for nothing
   (`pool_token_tail.clsp:57-63, 88-90`), so anyone adds and removes Sols (`AddUngated`,
   `RemoveUngated`); its header (5) says the pool alone authorizes both. BooksMatchCoins counts
   these apart and NeverDrained holds until somebody adds some.
6. **Fees that no vote changes** (`governed`). UPDATE replaces one entry while the fee must equal
   its two shares before and after, so fee and split stay what they were at genesis (theorem
   `FeesAreFrozen`); `docs/SOLS_ECONOMICS_V3.md` (56, 100) calls the fee governed and lists fees
   among the adjustable statutes. That a change is never possible has no counterexample that a
   run could find, therefore the theorem.
7. **A deed without its payment** (`presale`). The delegate's MODE_EXTERNAL and MODE_VOUCHER take
   announcements of coins that the spender names (`mint_offer_delegate_v6.clsp:579-646`,
   action `DeliverUnbound`); its header (7-12) says they consume the receipt or the voucher.
8. **One signature, several deeds** (`redeem`). `p2_vault` compares the announcement with the
   launcher of its solution and not with its own (`p2_vault.clsp:67`), so every deed of a vault
   may follow one signed migration; the comment at `vault_singleton_inner_v2.clsp` (604-605)
   speaks of one signed spend per deed. LeavesAsAnnounced says what does hold: the deed goes
   where the owner signed that a deed should go, in the spend that was signed. The VSX1 form of a
   swap and the redemption name the deed's coin, and for them it is the deed that was named.

Noticed in the same code: the announcement is not consumed, so one bill may be allocated from a
coin and again from its remainder in the block that ends its vote; EXECUTE of a sale is content with any spend of a
reserve coin, so it may allocate nothing. `SalesPaid` and `CoinsPartition` hold all the
same. External receipts name the purchase and not the sale coin, so they are not counted.

Noticed, without a run that shows it (they concern what no step does, or one comparison):

* *Pool.* No spend rewrites the records of the inventory, whereas
  `docs/SOLS_ECONOMICS_V3.md` (64) speaks of NAV updates applied to every held deed; a deed
  stays until its collection's record is again the one it came under. The principal of the
  last deed is everything that circulates and its fee comes on top, so with the pool's own Sols
  it cannot leave, which is what `NeverDrained` rests on. The puzzle itself accepts the purchase,
  as `tests/test_sols_pool_v4.py` (152-177) quotes it down to no deed, and Sols that the TAIL
  added would pay for it; an empty pool then never reopens. The pool reads a pause's flag and not its
  expiry (`pool_singleton_inner_v5.clsp:311`).
* *Swaps.* `prepare_sols_buyer_offer` makes an offer from a BLS wallet and ends in
  `validate_sols_buyer_offer`, which demands a coin of the vault's Sols puzzle
  (`sols_swap_v4_driver.py:647`), so it never succeeds. That puzzle has no spend but a swap and a swap
  takes exactly one such coin, so a vault's Sols that came in several coins cannot be joined.
  The redemption case of `smart_deed_inner_v2` is never reached: a deed in custody is under
  `p2_pool_v2`.
* *Statutes.* Nothing makes `nav_version` grow (`protocol_statutes_inner_v1.clsp:150`). A
  statutes, pool or treasury bill that passed its vote may be closed by any coin that takes
  its message, so that nothing is carried out and the bill has to be voted on again.
* *Version registry.* A code bill that is not published in the block of its execution, or
  that a fast track has overtaken, is lost: it ends the vote and changes nothing. A bill for a later version than the next waits and
  overwrites the parameters published before it.
  `research/SOLSLOT_VAULT_UPGRADE_DESIGN.md` (166, 241) describes a cooldown with a veto for
  the fast track, which no puzzle implements.
* *Presale.* A launch so early that its delivery window ends before the refund deadline
  leaves vouchers that neither redemption nor the time-out refund accepts
  (`voucher_nft_inner_v3.clsp:169`), against its header (6-8); hence the hypothesis of
  `LiveSettles`. A refund before launch or after cancellation asks the vault for a migration,
  which a passkey or EVM key cannot sign. A series whose LAUNCH deadline has passed waits for
  CANCEL, which nothing brings about. EXTEND may go past the quote. A receipt settles whether
  or not its deeds join; "atomic SmartDeed delivery" in the header of
  `voucher_stripe_receipt_v1.clsp` (4-5) is what the driver's bundles do.
* *Vault.* 'o' announces a deposit no
  `p2_vault` waits for. 'i' asserts the announcement of a coin that its unsigned solution names,
  so it can be spent with no deed at all, and sends a deed that follows to the vault's own inner
  puzzle, which never runs for a deed. Changing the owner to a secp key makes later 'k' and 'm'
  impossible.
* *Redemption.* Two fundings may name one deed, and then one of the offers is never claimed;
  a plan that does not add up can pass its vote; no treasury takes it, and it is closed by
  another coin that takes the message, with nothing funded.
* *Mint.* The launcher asserts that the DID announced the puzzle hash in its own solution, which
  anyone gives, so it can be spent on another deed's announcement and is then lost; the header of
  `mint_publish_driver.py` (34-37) says there is no launcher-coin race. EXECUTE of the bill does
  not ask for the launcher: left out of that block it can never be launched, and the property
  stays registered. A registration made outside a bill leaves its property without a deed for
  good. A proposal that is APPROVED or CANCELLED has no way to EXECUTED, while its bill can
  still be voted and its deed launched. EXECUTE of a MINT waits for one more key, and EXPIRE is
  closed at quorum.
* *Authority.* Daily keys are distinct at genesis only (`admin_authority_v3_driver.py:1318`).

## 4. Proofs

All theorems hold for every value of the constants that the modules' assumptions admit:
any supply, holders, bills and policies; any deeds, shares, listings, fees and prices; any
credentials and delays; any purchases, deadlines, statutes changes, vaults and plans; any
deeds to mint and properties; and any value of the caps.

**`SGTGovernance_proofs`.** All hold for any number of tracker spends in a block. TallyBacked is
not inductive: nothing in it says what an announcement of this block is worth. `IInv` adds to the
types that announced locks are not over (*LocksAhead*); that, as long as no vote ended in this
block, some function gives each unit at most one announcement of the block, so that every
announcement has locked units behind it and the tally is covered by units of which no announcement
is still to be counted (*AnnouncementsBacked*); that a vote begun afresh sees no EXEC announcement, hence nothing that
could free its locks (*NoEndSince*); and that evidence older than any end of a vote in this block
is that of the registry (*EvidenceCurrent*). From it follow `TallyIsBacked`,
`TallyIsWithinSupply`, `SnapshotIsCurrent` and, as an action property, `VotesAreHeld`.
`Refinement` shows that the tracker implements `Ballot`, one lemma per kind of step; it needs the
types only: counting a lock twice or opening a vote on old evidence changes who passes, not what
passing means.

**`SGTReserve_proofs`.** `CoinSteps` reduces every step to one fact: it leaves the coins alone
or replaces one coin by typed coins that hold its units once. `TypeCorrect` and `UnitsConserved` follow
from it. SalesPaid is not inductive; `PaidInv` adds that coins are finitely many and that a
coin paid for in this block is an unspent coin of a chain sale (*PaidOpen*), so that TAKE turns a settled coin into
a settled coin. `LockServesItsBill` is by cases over the actions.

**`SolsSwap_proofs`, about `SolsPool`.** Four lemmas of integer arithmetic (floor and ceiling bounds, what a
payout and a principal do to value per Sols, the round trip) carry `NavIsKept` and
`RoundTripNotFree`. The inductive invariant is TypeOK and that an unopened pool is empty. That the pool is not
drained is no fact of the puzzle alone and is proved with the coins.

**`SolsSwap_proofs`, about the swaps.** InventoryIsHeld is not inductive: a settled quote installs an inventory
that was computed earlier. `HeldInv` adds that a quote which names the present pool coin says
of the inventory what its deed's move will do (*QuoteSound*), that a record is unique to its deed,
and the types; a quote of another pool coin never settles. `CustodyIsInventory` follows.
`QuotesAccepted` is the refinement: *FitInv* adds that a quote of the present pool coin and
registry is what `SolsPool` computes from them (*QuotesFit*), with lemmas that Python's prices are
those of the puzzle. It needs one fact about sums, that the inventory adds up to the books.

**Sums.** `SumFunction` folds over a set, and what a fold computes is out of the provers' reach
when it is unfolded. The section on sums avoids that: a sum of naturals over a finite set is the
number of pairs *<<x, i>>* with *i* below the value of *x* (*Units*), the equation of the fold for
one element carries this from a smallest set on which it fails to a smaller one (*SumsDown*,
*SumCounts*: the descent is over subsets of one finite set, in first-order terms), and everything
else (adding an element, removing one, a part is at most the whole, disjoint unions) is
arithmetic on cardinalities. The lemmas stand in `SolsSwap_proofs` and in `Presale_proofs`.

**`SolsSwap_proofs`, about books.** PoolOpenable is not inductive: a deposit adds
one to the count and the record's value to NAV, which is right only of a finite inventory with one
record per deed, and the state of an unopened pool must be empty. `OpenInv` says so (*Recorded*,
with `IInv`); `PoolStaysOpenable` follows. BooksMatchCoins needs the coins to be finitely many, named once and
positive, and the Sols that the TAIL moved counted (`BooksInv`): a settled swap removes the coins its quote names, and only distinct names
make the sum fall by their amounts. `MarketInv` joins FitInv, OpenInv and BooksInv,
since each step of one uses the others: a deposit is accepted when its quote fits the puzzle,
which pays from a reserve coin that is the whole reserve. `BooksAreKept` and `QuotesAccepted`
follow without hypotheses, and with the refinement `SwapsKeepMarket`: PoolOpenable, NavNeverFalls
and NoFreeRoundTrip hold of the quoted swaps. `PoolNeverDrained` comes last: the interesting case
is the purchase that would take the last backing. Its payment is one coin that covers principal
and fee; if nothing was ever added, the books bound that coin by what circulates, and the positive
fee of `MarketAssumption` leaves something behind.

**`AdminAuthority_proofs`.** `Inv` says that the pending fields describe one change
(*ChangeCommitted*), that everything else is settled and mirrored (*Quiet*), and that the
pending identity either still waits in the committed coin, as old as the authority's, or
has finished after the delay (*Waiting*, *Finished*). `MirrorsIdentities` and `VetoIsOpen`
follow from it, `OthersAreHeld` and `DelayIsServed` (defined there: a credential changes only to
the committed one, after its delay) by cases over the actions. `Refinement` needs that only the
pending identity is on its way (`OnlyPendingMoves`), so that there is one request at most and a
cancellation or a finish leaves none; one lemma per kind of step maps it (`KeysRequested`,
`KeysVetoed`, `KeysGranted`). That a cancellation changes no key is
*ChangeCommitted*: the pending original is the credential the custody started from.

**`Presale_proofs`.** DeliveredIsPaid and OutcomesAgree are not inductive. `IInv` adds that a
reservation and a delivery are about the purchase's own deed (*ForItsDeed*), that an unbound delivery has moved its deed (*UnboundLeft*), that in a trade a
payment taken is a deed delivered in its own bundle (*TakenIsDelivered*), that only a voucher's payment is held,
and with its voucher (*HeldWithVoucher*), and that receipts cover whole batches
(*ReceiptsAreBatches*). One lemma per kind of step preserves it (`InvDirect`, `InvRedeem`,
`InvUndelivered`, `InvUnbound`, `InvSell`, `InvReservation`), and `DeliversOne` is shared by those
that deliver a single deed. `SeriesDoesAccount` adds the finiteness of
the vouchers and counts with cardinalities. `RevenueIsExact` adds that what is reserved is reserved at the deed's price (*ReservedAtPrice*),
that a receipt states what its artifacts are due (*ReceiptsExact*), and that on a rail of trades only revenue is the sum over
what was sold (*RevenueIsSold*), unbound deliveries on a chain rail included; it needs that nothing
is sold twice, which is *TakenIsDelivered*, *UnboundLeft* and *ReceiptsAreBatches*, or a batch could
be added over purchases already counted. `Refinement` maps each step to one of the exchange: a sale pays, a redemption or a direct sale delivers its whole batch, a refund refunds, and the
series, reservations, receipts alone and unbound deliveries do nothing.

**`Governed_proofs`.** `Inv` is TypeOK, TablesValid and EvidenceIsCurrent with three facts:
evidence is never of a later version (*EvidenceIsPast*); the
registry a code bill saw is an earlier one or the present one, whatever the bill contains
(*BillSound*, for the bill in draft, in vote and closed in this block); and the routine approvals of this
block are those of bills that ended in it (*ApprovalsVoted*). The central lemma is that a
version names one state: an update takes the version one up, so evidence of the new version
cannot exist yet. VersionNamesState and CodeIsRatified follow. `FeesAreFrozen` is arithmetic on one changed entry under two equations.

**`Redemption_proofs`.** `SpendEffect` and `AcceptEffect` say of all spend cases at once what
they do to coins and deeds; `DeedsLeaveAsAnnounced` follows without an invariant other than the
types. PayoutsExact is inductive with TypeOK, since a retired deed is at the sink, from which no action
takes it. `SumFunction` is never expanded: only that the code compares it.

**`Mint_proofs`.** None of the three properties is inductive. `IInv` says that one vote ends
in a block and the next one's deadline is later (*OneEnd*), so an announced deed has one bill
(*AdmittedByVote*) whose registration is in the block and in the registry
(*RegistrationsRecorded*); that the registry holds an id once (*NoRepeat*); and that a deed of
an earlier block has its property in the registry as it was before every registration of this
block (*LaunchedEarlier*). A deed launched now has its property after the registry its bill
names, an earlier deed of the same property has it before, and NoRepeat excludes both: this is
`InvLaunch`. *Published*, proved beside it, keeps a launched deed from being published again.

**Model-checked only.** Liveness (LocksReturn, FailedVoteClears, IdentitySettles, SalesEnd,
LiveSettles, BillsConclude): TLAPS has no rule for fairness here.
`AllocateSettlement` against its definition (AllocationIsFair): the largest-remainder rule sorts
and folds at once. The violated properties. Every safety property of a passing run is a theorem. The other way round, `FeesAreFrozen` and
`DelayIsServed` are theorems about properties that no run lists.

## 5. Plan

Done: `SGTGovernance` with its abstraction `Ballot`, `SGTReserve`, `SolsPool` and the quotes and
coins of its swaps, `SolsSwap`; `AdminAuthority` with its abstraction `KeyChange`; `PrimaryPurchase` and `Presale` with their abstraction `Exchange`;
`Statutes`, `VersionRegistry` and their composition `Governed`; `Vault` and `Redemption`; `Mint`. All
with runs and proofs.

What is left, in this order:

1. `Mint` joined to `PrimaryPurchase`: a launched deed as the item for sale.
2. `SolsSwap` joined to `Vault`, so that the vault's side of a swap is that module's 's'.

## 6. Not modelled

* **Collection NAV registry, protocol configuration**: one root each, replaced on one message.
* **Serialization and hashing**: tree hashes, EIP-712 and zkPassport encodings, artifact
  JSON. A commitment is the value it commits to.
* **Drivers' plumbing**: coin selection, faucets, offers' file format, wallet code, release
  scripts, JSON schemas and fixtures. They keep no protocol state.
* **Legacy puzzles** (pool v3, governance v1, authorities v2 and v3): superseded.
* **Off-chain services** (payment providers, validators, the backend): they appear only as
  whoever makes or signs a spend. Fees, mempool policy and reorganisations of the Chia chain
  are outside the code.

The map names somewhat over a fifth of the implementation's lines. Most of the rest is Python that
validates, encodes and signs what the puzzles then check again
(schemas, encodings and signature checks of `payment_artifacts_*.py` and
`stripe_settlement_v1_driver.py`, the genesis ceremonies and preflights), so the state machines are covered more completely than the share of lines says.
