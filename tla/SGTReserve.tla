----------------------------- MODULE SGTReserve -----------------------------
(***************************************************************************)
(* The company's SGT reserve (sgt_reserve_inner_v1.clsp under the free and *)
(* the locked SGT wrapper) and the coins it allocates for sale             *)
(* (sgt_sale_inner_v1.clsp), next to the tracker seen as a Ballot.         *)
(*                                                                         *)
(* A reserve coin has no key: anyone may spend it in the ways below.  It   *)
(* is locked whole, split by an allocation and never merged, so here a     *)
(* coin is a set of units.  A coin is also its coin id: once spent, no     *)
(* later coin has it, and what was announced for it serves no other.       *)
(***************************************************************************)
EXTENDS Ballot, FiniteSets

CONSTANTS
  Unit,        \* the units of SGT issued into the reserve
  MaxPayments  \* bound on the payments of each sale

ASSUME ReserveAssumption == IsFiniteSet(Unit) /\ Unit # {} /\ MaxPayments \in Nat

Rail == {"chain", "external"}

\* The parts of the bills that the reserve and the sale coin read.
ASSUME BillAssumption ==
  Bill \subseteq [kind : {"sale", "grant", "redemption"}, amount : Nat \ {0},
                  rail : Rail, expires : 0 .. MaxTime]

VARIABLES
  coins,     \* the coins that hold the units
  treasury,  \* payments the company treasury received for each sale bill
  block      \* the block so far: approvals (GOVP), sale coins paid for, bills with
             \* an external receipt, bills executed, and whether a reserve coin was spent

vars == <<now, vote, closed, coins, treasury, block>>

Amounts == (SUBSET Unit) \ {{}}

ReserveCoin(A) == [units |-> A, at |-> "reserve", bill |-> NoBill, deadline |-> 0]

LockedCoin(A, b, d) == [units |-> A, at |-> "locked", bill |-> b, deadline |-> d]

SaleCoin(A, b) == [units |-> A, at |-> "sale", bill |-> b, deadline |-> b.expires]

VaultCoin(A, b) == [units |-> A, at |-> "vault", bill |-> b, deadline |-> 0]

Coin == [units : Amounts, at : {"reserve", "locked", "sale", "vault"},
         bill : Bill \cup {NoBill}, deadline : 0 .. MaxTime]

EmptyBlock == [approvals |-> {}, paid |-> {}, receipts |-> {}, executed |-> {},
               touched |-> FALSE]

\* The type invariant.
TypeOK ==
  /\ now \in 0 .. MaxTime
  /\ vote \in Vote
  /\ closed \subseteq Bill
  /\ coins \subseteq Coin
  /\ \A c \in coins : c.at = "reserve" \/ c.bill \in Bill
  /\ treasury \in [Bill -> Nat]
  /\ block \in [approvals : SUBSET Bill, paid : SUBSET Coin, receipts : SUBSET Bill,
                executed : SUBSET Bill, touched : BOOLEAN]

----------------------------------------------------------------------------
\* The issuance put the whole supply into one reserve coin.
Init ==
  /\ BallotInit
  /\ coins = {ReserveCoin(Unit)}
  /\ treasury = [b \in Bill |-> 0]
  /\ block = EmptyBlock

ballotAndMoney == <<now, vote, closed, treasury>>

AdminApprove(b) ==
  /\ block' = [block EXCEPT !.approvals = @ \cup {b}]
  /\ UNCHANGED <<ballotAndMoney, coins>>

\* LOCK: the whole coin backs a bill the admins approve in this block.
Sponsor(c, b, d) ==
  /\ c.at = "reserve"
  /\ b \in block.approvals
  /\ now < d
  /\ coins' = (coins \ {c}) \cup {LockedCoin(c.units, b, d)}
  /\ block' = [block EXCEPT !.touched = TRUE]
  /\ UNCHANGED ballotAndMoney

\* The locked wrapper returns the coin to the reserve: at its deadline, or
\* when the tracker announces the end of the vote.
Release(c) ==
  /\ c.at = "locked"
  /\ now >= c.deadline \/ c.bill \in closed
  /\ coins' = (coins \ {c}) \cup {ReserveCoin(c.units)}
  /\ UNCHANGED <<ballotAndMoney, block>>

----------------------------------------------------------------------------
\* The coin an allocation creates: a sale coin, or the grant in its vault.
Allocated(A, b) == IF b.kind = "sale" THEN SaleCoin(A, b) ELSE VaultCoin(A, b)

\* Slip: the remainder is not reduced by the allocation.
SplitKeepingWhole(c, A, b) ==
  /\ b.kind \in {"sale", "grant"}
  /\ A \subseteq c.units /\ Cardinality(A) = b.amount
  /\ coins' = (coins \ {c}) \cup {Allocated(A, b), ReserveCoin(c.units)}

\* SALE and GRANT split the coin into the bill's amount and the remainder.
Split(c, A, b) ==
  /\ b.kind \in {"sale", "grant"}
  /\ A \subseteq c.units /\ Cardinality(A) = b.amount
  /\ coins' = (coins \ {c}) \cup {Allocated(A, b)}
                \cup {ReserveCoin(R) : R \in {c.units \ A} \ {{}}}

\* SALE or GRANT of a reserve coin, in a block with the bill's EXEC announcement.
Allocate(c, A, b) ==
  /\ b \in closed
  /\ c.at = "reserve"
  /\ Split(c, A, b)
  /\ block' = [block EXCEPT !.touched = TRUE]
  /\ UNCHANGED ballotAndMoney

\* PROPOSE of an approved bill, by any holder of the stake.
Propose(b, d) ==
  /\ b \in block.approvals
  /\ Begin(b, d)
  /\ UNCHANGED <<coins, treasury, block>>

CountVotes == Pass /\ UNCHANGED <<coins, treasury, block>>

\* EXECUTE where the co-spend its dispatch asserts is there already: none for a
\* redemption, the spend of any reserve coin for a sale or a grant.
Execute ==
  /\ Close(TRUE)
  /\ vote.bill.kind = "redemption" \/ block.touched
  /\ block' = [block EXCEPT !.executed = @ \cup {vote.bill}]
  /\ UNCHANGED <<coins, treasury>>

\* Slip: the released coin's own bill is not compared.
ExecuteFromAnyLock(c, A) ==
  /\ Close(TRUE)
  /\ c.at \in {"reserve", "locked"}
  /\ Split(c, A, vote.bill)
  /\ block' = [block EXCEPT !.executed = @ \cup {vote.bill}, !.touched = TRUE]
  /\ UNCHANGED treasury

\* EXECUTE in one bundle with the allocation of a reserve coin, which may be
\* the child of a coin that the same bundle releases (build_reserve_execute_spends).
ExecuteAllocating(c, A) ==
  /\ Close(TRUE)
  /\ c.at = "reserve" \/ (c.at = "locked" /\ c.bill = vote.bill)
  /\ Split(c, A, vote.bill)
  /\ block' = [block EXCEPT !.executed = @ \cup {vote.bill}, !.touched = TRUE]
  /\ UNCHANGED treasury

Expire == Close(FALSE) /\ UNCHANGED <<coins, treasury, block>>

----------------------------------------------------------------------------
\* The buyer's offer pays the treasury; the settlement announcement names the
\* sale coin.
Pay(c) ==
  /\ c.at = "sale" /\ c.bill.rail = "chain"
  /\ c \notin block.paid
  /\ treasury[c.bill] < MaxPayments
  /\ treasury' = [treasury EXCEPT ![c.bill] = @ + 1]
  /\ block' = [block EXCEPT !.paid = @ \cup {c}]
  /\ UNCHANGED <<now, vote, closed, coins>>

\* Some coin announces the external receipt of a sale.
Receipt(b) ==
  /\ b.kind = "sale" /\ b.rail = "external"
  /\ block' = [block EXCEPT !.receipts = @ \cup {b}]
  /\ UNCHANGED <<ballotAndMoney, coins>>

\* The sale coin is spent: its units move on, and it cannot be paid for again.
SpendSale(c, next) ==
  /\ coins' = (coins \ {c}) \cup {next}
  /\ block' = [block EXCEPT !.paid = @ \ {c}]
  /\ UNCHANGED ballotAndMoney

\* Slip: a payment for any coin of the same sale will do.
TakeOnAnyPayment(c) ==
  /\ c.at = "sale" /\ now < c.deadline
  /\ \E p \in block.paid : p.bill = c.bill
  /\ SpendSale(c, VaultCoin(c.units, c.bill))

\* TAKE, before the sale expires, with the payment for this very coin.
Take(c) ==
  /\ c.at = "sale" /\ now < c.deadline
  /\ c \in block.paid
  /\ SpendSale(c, VaultCoin(c.units, c.bill))

\* EXTERNAL_TAKE: the receipt names the purchase, not the coin.
ExternalTake(c) ==
  /\ c.at = "sale" /\ c.bill.rail = "external" /\ now < c.deadline
  /\ c.bill \in block.receipts
  /\ SpendSale(c, VaultCoin(c.units, c.bill))

\* Slip: the time condition of TAKE stands on RETURN too.
ReturnBeforeExpiry(c) ==
  /\ c.at = "sale" /\ now < c.deadline
  /\ SpendSale(c, ReserveCoin(c.units))

\* RETURN, by anyone, once the sale has expired.
Return(c) ==
  /\ c.at = "sale" /\ now >= c.deadline
  /\ SpendSale(c, ReserveCoin(c.units))

NextBlock(t) ==
  /\ BallotNextBlock(t)
  /\ block' = EmptyBlock
  /\ UNCHANGED <<coins, treasury>>

ReserveSpend ==
  \E c \in coins :
    \/ \E b \in Bill, d \in 0 .. MaxTime : Sponsor(c, b, d)
    \/ Release(c)
    \/ \E A \in Amounts, b \in Bill : Allocate(c, A, b)

SaleSpend == \E c \in coins : Pay(c) \/ Take(c) \/ ExternalTake(c) \/ Return(c)

TrackerSpend ==
  \/ \E b \in Bill, d \in 0 .. MaxTime : Propose(b, d)
  \/ CountVotes
  \/ Execute
  \/ \E c \in coins, A \in Amounts : ExecuteAllocating(c, A)
  \/ Expire

Next ==
  \/ ReserveSpend
  \/ SaleSpend
  \/ TrackerSpend
  \/ \E b \in Bill : AdminApprove(b) \/ Receipt(b)
  \/ \E t \in 0 .. MaxTime : NextBlock(t)

Spec == Init /\ [][Next]_vars

\* Blocks keep coming, and the return of an expired sale, which needs nobody's
\* key, is not put off for ever.
Fairness ==
  /\ WF_vars(\E t \in 0 .. MaxTime : NextBlock(t))
  /\ \A A \in Amounts : WF_vars(\E c \in coins : c.units = A /\ Return(c))

FairSpec == Spec /\ Fairness

----------------------------------------------------------------------------
\* However a coin is locked, split, sold and returned, the coins hold every
\* unit of the issuance once and none is empty.
CoinsPartition ==
  /\ UNION {c.units : c \in coins} = Unit
  /\ \A c \in coins : c.units # {}
  /\ \A c, e \in coins : c # e => c.units \cap e.units = {}

\* The treasury received one payment for every coin delivered on a chain rail,
\* and one for each that is paid for and not yet taken, even when one sale bill
\* has several coins.
SalesPaid ==
  \A b \in Bill :
    b.kind = "sale" /\ b.rail = "chain" =>
      Cardinality({c \in coins : c.bill = b /\ c.at = "vault"} \cup
                  {c \in block.paid : c.bill = b}) <= treasury[b]

\* A coin locked behind a bill goes back to the reserve whole or is allocated
\* for that bill and no other; the reserve's header says of a redemption that its
\* sponsorship can only return the complete reserve unchanged.
LockedForItsBill ==
  [][\A c \in coins : c.at = "locked" =>
       \/ c \in coins'
       \/ ReserveCoin(c.units) \in coins'
       \/ c.bill.kind # "redemption" /\
            \E A \in Amounts : A \subseteq c.units /\ Allocated(A, c.bill) \in coins']_vars

\* A unit offered for sale is delivered or comes back to the reserve.
OnSale(u) == \E c \in coins : c.at = "sale" /\ u \in c.units

SalesEnd == \A u \in Unit : OnSale(u) ~> ~OnSale(u)

\* The header of sgt_reserve_inner_v1.clsp: SGT can leave the reserve only after
\* the tracker executes the bill it is allocated for.
LeavesOnlyExecuted ==
  [][\A c \in coins' \ coins :
       c.at = "sale" \/ (c.at = "vault" /\ c.bill.kind = "grant")
         => c.bill \in block'.executed]_vars
=============================================================================
