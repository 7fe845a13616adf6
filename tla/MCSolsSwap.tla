----------------------------- MODULE MCSolsSwap -----------------------------
(***************************************************************************)
(* A small market: two deeds of one collection and two vaults.             *)
(***************************************************************************)
EXTENDS SolsSwap

CONSTANTS d1, d2, c1, v1, v2

MCDeed == {d1, d2}
MCCollection == {c1}
MCCollectionOf == [d \in MCDeed |-> c1]
\* Shares and prices for which payouts, principals and values round.
MCShare == [d \in MCDeed |-> IF d = d1 THEN 5 ELSE 3]
MCVault == {v1, v2}
MCFirstVault == [d \in MCDeed |-> v1]

Active == [nav |-> 9, ceiling |-> 9, version |-> 1, after |-> 0, until |-> 2, status |-> 1]
Revalued == [nav |-> 7, ceiling |-> 7, version |-> 2, after |-> 1, until |-> 2, status |-> 1]
Settled == [nav |-> 9, ceiling |-> 9, version |-> 1, after |-> 0, until |-> 2, status |-> 3]
MCListing == {Active, Revalued, Settled}
MCExpiry == {2}
\* Enough, with what a deposit of d2 pays, for its principal and fee.
MCAdded == {[to |-> v2, amount |-> 5]}
MCPayee == [d \in MCDeed |-> IF d = d1 THEN {v2} ELSE {Wallet}]
=============================================================================
