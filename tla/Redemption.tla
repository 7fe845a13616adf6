----------------------------- MODULE Redemption -----------------------------
(***************************************************************************)
(* Funded redemption: a voted bill splits an exact deposit of the          *)
(* redemption treasury into one permanent offer a deed, and the vault that *)
(* holds the deed accepts its offer.  The tracker is seen as a ballot, the *)
(* holders as vaults.                                                      *)
(***************************************************************************)
EXTENDS Vault, Sequences, Functions

CONSTANTS
  Rank,              \* the order of the deeds' launcher ids
  ShareDenominator,  \* 1 000 000 in the code
  NoPlan, MaxTime

\* A plan: the total and, for each of its deeds, the share and the payment.
ASSUME RedemptionAssumption ==
  /\ \A p \in Plan : p.total \in Nat /\ DOMAIN p.amount \subseteq Deed
  /\ \A d \in Deed : Rank[d] \in Nat
  /\ ShareDenominator \in Nat \ {0} /\ MaxTime \in Nat
  /\ NoPlan \notin Plan

----------------------------------------------------------------------------
\* allocate_settlement: what rounding down leaves goes, a unit each, to the largest
\* remainders, the earlier deed first.
AllocateSettlement(total, share) ==
  LET base == [d \in DOMAIN share |-> (total * share[d]) \div ShareDenominator]
      rest(d) == (total * share[d]) % ShareDenominator
      before(d) == {e \in DOMAIN share : \/ rest(e) > rest(d)
                                         \/ rest(e) = rest(d) /\ Rank[e] < Rank[d]}
      leftover == total - SumFunction(base)
  IN [d \in DOMAIN share |->
        IF Cardinality(before(d)) < leftover THEN base[d] + 1 ELSE base[d]]

\* build_funded_redemption_plan.
BuildPlan(s) ==
  [total |-> s.total, share |-> s.share, amount |-> AllocateSettlement(s.total, s.share)]

DeedsOf(plan) == DOMAIN plan.amount

\* Slip: the payments are not added up.
ValidAllocationsUnsummed(plan) ==
  /\ \A d \in DeedsOf(plan) : plan.amount[d] > 0 /\ plan.share[d] \in 1 .. ShareDenominator
  /\ SumFunction(plan.share) = ShareDenominator

ValidAllocations(plan) ==
  /\ \A d \in DeedsOf(plan) : plan.amount[d] > 0 /\ plan.share[d] \in 1 .. ShareDenominator
  /\ SumFunction(plan.share) = ShareDenominator
  /\ SumFunction(plan.amount) = plan.total

----------------------------------------------------------------------------
VARIABLES
  treasury,   \* the deposits in the redemption treasury
  funded,     \* each funding: its plan and the deeds whose offer is open
  now, vote, closed

B == INSTANCE Ballot WITH Bill <- Plan, NoBill <- NoPlan

vars == <<treasury, funded, vault, place, signed, now, vote, closed>>

custodyVars == <<vault, place, signed>>
trackerVars == <<now, vote, closed>>

Funding == [plan : Plan, open : SUBSET Deed]

Claimed(f) == DeedsOf(f.plan) \ f.open

TypeOK ==
  /\ VaultTypeOK
  /\ treasury \subseteq {p.total : p \in Plan}
  /\ funded \in Seq(Funding)
  /\ \A i \in DOMAIN funded : funded[i].open \subseteq DeedsOf(funded[i].plan)
  /\ now \in 0 .. MaxTime /\ vote \in B!Vote /\ closed \subseteq Plan

Init ==
  /\ VaultInit /\ B!BallotInit
  /\ treasury = {} /\ funded = <<>>

\* Anyone may pay the treasury, and nobody is paid back.
Deposit(p) ==
  /\ p.total \notin treasury
  /\ treasury' = treasury \cup {p.total}
  /\ UNCHANGED <<funded, custodyVars, trackerVars>>

\* known-bill-tag looks at the total and the count; the allocations are a hash to it.
Propose(p, deadline) ==
  /\ p.total > 0
  /\ B!Begin(p, deadline)
  /\ UNCHANGED <<treasury, funded, custodyVars>>

MeetQuorum == B!Pass /\ UNCHANGED <<treasury, funded, custodyVars>>

Expire == B!Close(FALSE) /\ UNCHANGED <<treasury, funded, custodyVars>>

\* EXECUTE.  With the spend of a deposit of the exact total it makes one offer a deed;
\* its message names no receiver, and another coin may take it, for nothing.
Fund ==
  /\ B!Close(TRUE)
  /\ \/ /\ vote.bill.total \in treasury /\ ValidAllocations(vote.bill)
        /\ treasury' = treasury \ {vote.bill.total}
        /\ funded' = Append(funded, [plan |-> vote.bill, open |-> DeedsOf(vote.bill)])
     \/ UNCHANGED <<treasury, funded>>
  /\ UNCHANGED custodyVars

NextBlock(t) == B!BallotNextBlock(t) /\ UNCHANGED <<treasury, funded, custodyVars>>

----------------------------------------------------------------------------
Claim(i, d) ==
  /\ d \in funded[i].open
  /\ funded' = [funded EXCEPT ![i].open = @ \ {d}]

\* 'd': the payment the owner signed for is made in the block, by the offer that the
\* deed is exchanged for or by anyone else; the deed leaves for the settlement puzzle.
AcceptRedemption(v, m) ==
  /\ m.op = "d" /\ Authorized(v, m) /\ vault[v].identity
  /\ m.deed \in DeedsOf(m.plan)
  /\ Recreate(v, vault[v])
  /\ \/ Follow(v, At("settlement")) /\ UNCHANGED funded
     \/ \E others \in SUBSET (Held(v) \ {m.deed}) :
          /\ m.deed \in Held(v)
          /\ place' = [d \in Deed |-> IF d = m.deed THEN At("sink")
                                      ELSE IF d \in others THEN At("settlement") ELSE place[d]]
          /\ \E i \in DOMAIN funded : funded[i].plan = m.plan /\ Claim(i, m.deed)
  /\ UNCHANGED <<treasury, trackerVars>>

\* The offer pays whenever its deed goes from the settlement puzzle to the zero hash
\* with the offer's nonce.
RetireSettled(i, d) ==
  /\ TakeSettled(d, At("sink"))
  /\ Claim(i, d)
  /\ UNCHANGED <<treasury, trackerVars>>

OwnerSigns(v, m) == Sign(v, m) /\ UNCHANGED <<treasury, funded, trackerVars>>

SpendVault(v, m) == VaultSpend(v, m) /\ UNCHANGED <<treasury, funded, trackerVars>>

\* Taken from the settlement puzzle, a deed goes to a vault or is burnt.
Take(d, p) == TakeSettled(d, p) /\ UNCHANGED <<treasury, funded, trackerVars>>

Next ==
  \/ \E p \in Plan : Deposit(p) \/ \E deadline \in 0 .. MaxTime : Propose(p, deadline)
  \/ MeetQuorum \/ Fund \/ Expire
  \/ \E a \in Asked :
       \/ OwnerSigns(a.vault, a.message) \/ SpendVault(a.vault, a.message)
       \/ AcceptRedemption(a.vault, a.message)
  \/ \E d \in Deed :
       \/ \E p \in {In(v) : v \in Vault} \cup {At("sink")} : Take(d, p)
       \/ \E i \in DOMAIN funded : RetireSettled(i, d)
  \/ \E t \in 0 .. MaxTime : NextBlock(t)

Spec == Init /\ [][Next]_vars

----------------------------------------------------------------------------
\* The offers of a funding add up to the deposit it split, so that each can be paid;
\* an offer was paid only for a deed that is gone for good, and no deed was paid for
\* twice, whatever was funded again and however the deed travelled in between.
PayoutsExact ==
  /\ \A i \in DOMAIN funded : SumFunction(funded[i].plan.amount) = funded[i].plan.total
  /\ \A i \in DOMAIN funded : \A d \in Claimed(funded[i]) :
       /\ place[d] = At("sink")
       /\ \A j \in DOMAIN funded \ {i} : d \notin Claimed(funded[j])

\* Where the announcement of a vault's spend lets its deeds go.
Announced(m, p) ==
  \/ m.op \in {"i", "v"} /\ p = At("stuck")
  \/ m.op = "m" /\ p = In(m.to)
  \/ m.op = "s" /\ p = At("pool")
  \/ m.op = "d" /\ p \in {At("settlement"), At("sink")}

Names(m, d) == (m.op = "s" /\ d \in m.deeds) \/ (m.op = "d" /\ d = m.deed)

\* Only the deed that is named goes to the pool, or from the vault to the sink.
Sends(m, d, p) == Announced(m, p) /\ (p \in {At("pool"), At("sink")} => Names(m, d))

\* A deed leaves a vault only by the spend of the vault coin for which its owner of
\* that moment signed, to where that message sends: no signature outlives a spend, a
\* rotation of the keys or the coming and going of the deed.  The message of a
\* migration names one deed and others of the vault may go with it; but none is given
\* to the pool for Sols or taken by its offer except the one that is named.
LeavesAsAnnounced ==
  [][\A d \in Deed, v \in Vault :
       (place[d] = In(v) /\ place'[d] # In(v)) =>
         /\ vault'[v].coin = vault[v].coin + 1
         /\ \E s \in signed :
              /\ s.vault = v /\ s.coin = vault[v].coin /\ s.key = vault[v].owner
              /\ Sends(s.message, d, place'[d])]_vars
=============================================================================
