------------------------- MODULE SGTReserve_proofs -------------------------
(***************************************************************************)
(* Theorems about SGTReserve, for every issuance, set of bills and clock.  *)
(***************************************************************************)
EXTENDS SGTReserve, FiniteSetTheorems, TLAPS

\* The coins an action of the reserve builds are coins.
LEMMA CoinTypes ==
  ASSUME NEW A \in Amounts, NEW b \in Bill, NEW d \in 0 .. MaxTime
  PROVE  /\ ReserveCoin(A) \in Coin
         /\ LockedCoin(A, b, d) \in Coin
         /\ SaleCoin(A, b) \in Coin
         /\ VaultCoin(A, b) \in Coin
<1>1. 0 \in 0 .. MaxTime
  BY BallotAssumption
<1>2. b.expires \in 0 .. MaxTime
  <2> DEFINE Part == [kind : {"sale", "grant", "redemption"}, amount : Nat \ {0},
                      rail : Rail, expires : 0 .. MaxTime]
  <2>1. b \in Part
    <3> HIDE DEF Part
    <3>1. Bill \subseteq Part
      BY BillAssumption DEF Part
    <3>2. QED BY <3>1
  <2>2. QED BY <2>1
<1>3. QED BY <1>1, <1>2 DEF ReserveCoin, LockedCoin, SaleCoin, VaultCoin, Coin

\* The tracker's part of a step keeps the type of its state.
LEMMA BallotTypes ==
  ASSUME TypeOK, BallotNext \/ UNCHANGED ballotVars
  PROVE  now' \in 0 .. MaxTime /\ vote' \in Vote /\ closed' \subseteq Bill
<1>1. CASE UNCHANGED ballotVars
  BY <1>1 DEF TypeOK, ballotVars
<1>2. ASSUME NEW b \in Bill, NEW d \in 0 .. MaxTime, Begin(b, d)
      PROVE  now' \in 0 .. MaxTime /\ vote' \in Vote /\ closed' \subseteq Bill
  BY <1>2 DEF TypeOK, Begin, Vote
<1>3. ASSUME VoteOpen, vote \in Vote
      PROVE  vote \in [bill : Bill, deadline : 0 .. MaxTime, passed : BOOLEAN]
  BY <1>3 DEF Vote, VoteOpen, NoVote
<1>4. CASE Pass
  BY <1>3, <1>4 DEF TypeOK, Pass, Vote
<1>5. ASSUME NEW passed \in BOOLEAN, Close(passed)
      PROVE  now' \in 0 .. MaxTime /\ vote' \in Vote /\ closed' \subseteq Bill
  BY <1>3, <1>5 DEF TypeOK, Close, Vote
<1>6. ASSUME NEW t \in 0 .. MaxTime, BallotNextBlock(t)
      PROVE  now' \in 0 .. MaxTime /\ vote' \in Vote /\ closed' \subseteq Bill
  BY <1>6 DEF TypeOK, BallotNextBlock
<1>7. QED BY <1>1, <1>2, <1>4, <1>5, <1>6 DEF BallotNext

\* Every step of the reserve is a step of the ballot or leaves the ballot alone.
LEMMA ReserveBallot ==
  ASSUME Next
  PROVE  BallotNext \/ UNCHANGED ballotVars
BY DEF Next, ReserveSpend, SaleSpend, TrackerSpend, AdminApprove, Receipt, NextBlock,
       Sponsor, Release, Allocate, Pay, Take, ExternalTake, Return, SpendSale,
       Propose, CountVotes, Execute, ExecuteAllocating, Expire, BallotNext, ballotVars,
       ballotAndMoney

----------------------------------------------------------------------------
(***************************************************************************)
(* What a step does to the coins.  It leaves them alone or replaces one    *)
(* coin by a set of new ones that holds the same units.                    *)
(***************************************************************************)
Typed(N) == N \subseteq Coin /\ \A e \in N : e.at = "reserve" \/ e.bill \in Bill

HoldsOnce(N, A) ==
  /\ UNION {e.units : e \in N} = A
  /\ \A e \in N : e.units # {}
  /\ \A e, f \in N : e # f => e.units \cap f.units = {}

\* One coin made of one coin holds its units once.
LEMMA OneCoin ==
  ASSUME NEW e, e.units # {}
  PROVE  HoldsOnce({e}, e.units)
BY DEF HoldsOnce

\* Two coins made of two disjoint sets hold their union once.
LEMMA TwoCoins ==
  ASSUME NEW e, NEW f, e.units # {}, f.units # {}, e.units \cap f.units = {}
  PROVE  HoldsOnce({e, f}, e.units \cup f.units)
BY DEF HoldsOnce

\* An allocation replaces the coin by the allocated coin and the remainder.
LEMMA SplitCoins ==
  ASSUME NEW c \in Coin, NEW A \in Amounts, NEW b \in Bill, Split(c, A, b)
  PROVE  \E N : /\ coins' = (coins \ {c}) \cup N
                /\ Typed(N) /\ HoldsOnce(N, c.units) /\ IsFiniteSet(N)
                /\ N \subseteq {Allocated(A, b)} \cup {ReserveCoin(R) : R \in Amounts}
<1> DEFINE a == Allocated(A, b)
           R == c.units \ A
           r == ReserveCoin(R)
<1>1. A \subseteq c.units /\ c.units \subseteq Unit /\ A # {}
  BY DEF Split, Coin, Amounts
<1>2. a.units = A /\ a \in Coin /\ a.bill = b
  <2>1. 0 \in 0 .. MaxTime
    BY BallotAssumption
  <2>2. SaleCoin(A, b) \in Coin /\ VaultCoin(A, b) \in Coin
    BY <2>1, CoinTypes
  <2>3. QED BY <2>2 DEF Allocated, SaleCoin, VaultCoin
<1>3. r.units = R
  BY DEF ReserveCoin
<1>4. CASE R = {}
  <2>1. coins' = (coins \ {c}) \cup {a}
    BY <1>4 DEF Split
  <2>2. HoldsOnce({a}, c.units)
    <3> HIDE DEF a
    <3>1. HoldsOnce({a}, a.units)
      BY <1>1, <1>2, OneCoin
    <3>2. a.units = c.units
      BY <1>1, <1>2, <1>4
    <3>3. QED BY <3>1, <3>2
  <2>3. Typed({a}) /\ IsFiniteSet({a})
    BY <1>2, FS_Singleton DEF Typed
  <2>4. QED BY <2>1, <2>2, <2>3
<1>5. CASE R # {}
  <2>1. coins' = (coins \ {c}) \cup {a, r}
    BY <1>5 DEF Split
  <2>2. R \in Amounts
    BY <1>1, <1>5 DEF Amounts
  <2>3. r \in Coin /\ r.at = "reserve"
    BY <2>2, BallotAssumption DEF ReserveCoin, Coin
  <2>4. HoldsOnce({a, r}, c.units)
    <3> HIDE DEF a, r
    <3>1. HoldsOnce({a, r}, a.units \cup r.units)
      BY <1>1, <1>2, <1>3, <1>5, TwoCoins
    <3>2. a.units \cup r.units = c.units
      BY <1>1, <1>2, <1>3
    <3>3. QED BY <3>1, <3>2
  <2>5. Typed({a, r})
    BY <1>2, <2>3 DEF Typed
  <2>6. IsFiniteSet({a, r})
    <3>1. IsFiniteSet({a} \cup {r})
      BY FS_Singleton, FS_Union
    <3>2. {a, r} = {a} \cup {r}
      OBVIOUS
    <3>3. QED BY <3>1, <3>2
  <2>7. {a, r} \subseteq {a} \cup {ReserveCoin(Q) : Q \in Amounts}
    BY <2>2
  <2>8. QED BY <2>1, <2>4, <2>5, <2>6, <2>7
<1>6. QED BY <1>4, <1>5

\* What a step makes of the coin c it spends.
Replaces(c, N) ==
  /\ coins' = (coins \ {c}) \cup N
  /\ Typed(N) /\ HoldsOnce(N, c.units) /\ IsFiniteSet(N)

\* A spend that creates one coin replaces the spent coin by it.
LEMMA SingleReplaces ==
  ASSUME NEW c, NEW e \in Coin, e.at = "reserve" \/ e.bill \in Bill,
         e.units = c.units, coins' = (coins \ {c}) \cup {e}
  PROVE  Replaces(c, {e})
<1>1. e.units # {}
  BY DEF Coin, Amounts
<1>2. HoldsOnce({e}, c.units)
  BY <1>1, OneCoin
<1>3. QED BY <1>2, FS_Singleton DEF Replaces, Typed

\* A step spends no coin or replaces one coin.
LEMMA CoinSteps ==
  ASSUME TypeOK, Next
  PROVE  UNCHANGED coins \/ \E c \in coins : \E N : Replaces(c, N)
<1>1. \A c \in coins : /\ c \in Coin /\ c.units \in Amounts
                       /\ c.at # "reserve" => c.bill \in Bill
  BY DEF TypeOK, Coin
<1>2. 0 \in 0 .. MaxTime
  BY BallotAssumption
<1>3. ASSUME NEW c \in coins, NEW b \in Bill, NEW d \in 0 .. MaxTime, Sponsor(c, b, d)
      PROVE  Replaces(c, {LockedCoin(c.units, b, d)})
  <2>1. LockedCoin(c.units, b, d) \in Coin
    BY <1>1, CoinTypes
  <2>2. coins' = (coins \ {c}) \cup {LockedCoin(c.units, b, d)}
    BY <1>3 DEF Sponsor
  <2>3. LockedCoin(c.units, b, d).bill \in Bill /\ LockedCoin(c.units, b, d).units = c.units
    BY DEF LockedCoin
  <2>4. QED BY <2>1, <2>2, <2>3, SingleReplaces
<1>4. ASSUME NEW c \in coins, coins' = (coins \ {c}) \cup {ReserveCoin(c.units)}
      PROVE  Replaces(c, {ReserveCoin(c.units)})
  <2>1. ReserveCoin(c.units) \in Coin
    BY <1>1, <1>2 DEF ReserveCoin, Coin
  <2>2. ReserveCoin(c.units).at = "reserve" /\ ReserveCoin(c.units).units = c.units
    BY DEF ReserveCoin
  <2>3. QED BY <2>1, <2>2, <1>4, SingleReplaces
<1>5. ASSUME NEW c \in coins, NEW A \in Amounts, NEW b \in Bill, Split(c, A, b)
      PROVE  \E N : Replaces(c, N)
  BY <1>1, <1>5, SplitCoins DEF Replaces
<1>6. ASSUME NEW c \in coins, c.at = "sale",
             coins' = (coins \ {c}) \cup {VaultCoin(c.units, c.bill)}
      PROVE  Replaces(c, {VaultCoin(c.units, c.bill)})
  <2>1. VaultCoin(c.units, c.bill) \in Coin
    BY <1>1, <1>2, <1>6, CoinTypes
  <2>2. /\ VaultCoin(c.units, c.bill).bill \in Bill
        /\ VaultCoin(c.units, c.bill).units = c.units
    BY <1>1, <1>6 DEF VaultCoin
  <2>3. QED BY <2>1, <2>2, <1>6, SingleReplaces
<1>7. CASE ReserveSpend
  BY <1>3, <1>4, <1>5, <1>7 DEF ReserveSpend, Release, Allocate
<1>8. CASE SaleSpend
  BY <1>4, <1>6, <1>8 DEF SaleSpend, Pay, Take, ExternalTake, Return, SpendSale
<1>9. CASE TrackerSpend
  <2>1. ASSUME NEW c \in coins, NEW A \in Amounts, ExecuteAllocating(c, A)
        PROVE  \E N : Replaces(c, N)
    <3>1. vote.bill \in Bill
      BY <2>1 DEF ExecuteAllocating, Close, VoteOpen, TypeOK, Vote, NoVote
    <3>2. Split(c, A, vote.bill)
      BY <2>1 DEF ExecuteAllocating
    <3>3. QED BY <3>1, <3>2, <1>5
  <2>2. QED BY <1>9, <2>1 DEF TrackerSpend, Propose, CountVotes, Execute, Expire
<1>10. QED BY <1>7, <1>8, <1>9 DEF Next, AdminApprove, Receipt, NextBlock

----------------------------------------------------------------------------
(***************************************************************************)
(* Type correctness and conservation.                                      *)
(***************************************************************************)
\* The reserve, the treasury and the block keep their types.
LEMMA TypeStep ==
  ASSUME TypeOK, [Next]_vars
  PROVE  TypeOK'
<1>1. CASE UNCHANGED vars
  BY <1>1 DEF TypeOK, vars
<1>2. ASSUME Next PROVE TypeOK'
  <2>1. now' \in 0 .. MaxTime /\ vote' \in Vote /\ closed' \subseteq Bill
    BY <1>2, ReserveBallot, BallotTypes
  <2>2. coins' \subseteq Coin /\ \A c \in coins' : c.at = "reserve" \/ c.bill \in Bill
    BY <1>2, CoinSteps DEF TypeOK, Replaces, Typed
  <2>3. treasury' \in [Bill -> Nat]
    <3>1. ASSUME NEW c \in coins, Pay(c) PROVE treasury' \in [Bill -> Nat]
      BY <3>1 DEF Pay, TypeOK, Coin
    <3>2. QED BY <1>2, <3>1 DEF Next, ReserveSpend, SaleSpend, TrackerSpend, AdminApprove,
            Receipt, NextBlock, Sponsor, Release, Allocate, Take, ExternalTake, Return,
            SpendSale, Propose, CountVotes, Execute, ExecuteAllocating, Expire,
            ballotAndMoney, TypeOK
  <2>4. block' \in [approvals : SUBSET Bill, paid : SUBSET Coin, receipts : SUBSET Bill,
                    executed : SUBSET Bill, touched : BOOLEAN]
    <3> DEFINE Block == [approvals : SUBSET Bill, paid : SUBSET Coin, receipts : SUBSET Bill,
                         executed : SUBSET Bill, touched : BOOLEAN]
    <3>1. block \in Block /\ coins \subseteq Coin
      BY DEF TypeOK
    <3>2. Close(TRUE) => vote.bill \in Bill
      BY DEF Close, VoteOpen, TypeOK, Vote, NoVote
    <3>3. CASE ReserveSpend
      BY <3>1, <3>3 DEF ReserveSpend, Sponsor, Release, Allocate
    <3>4. CASE SaleSpend
      BY <3>1, <3>4 DEF SaleSpend, Pay, Take, ExternalTake, Return, SpendSale
    <3>5. CASE TrackerSpend
      <4>1. CASE Execute
        BY <3>1, <3>2, <4>1 DEF Execute
      <4>2. ASSUME NEW c \in coins, NEW A \in Amounts, ExecuteAllocating(c, A)
            PROVE  block' \in Block
        BY <3>1, <3>2, <4>2 DEF ExecuteAllocating
      <4>3. CASE UNCHANGED block
        BY <3>1, <4>3
      <4>4. QED BY <3>5, <4>1, <4>2, <4>3 DEF TrackerSpend, Propose, CountVotes, Expire
    <3>6. ASSUME NEW b \in Bill, AdminApprove(b) \/ Receipt(b) PROVE block' \in Block
      BY <3>1, <3>6 DEF AdminApprove, Receipt
    <3>7. ASSUME NEW t \in 0 .. MaxTime, NextBlock(t) PROVE block' \in Block
      BY <3>7 DEF NextBlock, EmptyBlock
    <3>8. QED BY <1>2, <3>3, <3>4, <3>5, <3>6, <3>7 DEF Next
  <2>5. QED BY <2>1, <2>2, <2>3, <2>4 DEF TypeOK
<1>3. QED BY <1>1, <1>2

\* A deployed reserve has the types.
LEMMA TypeInit == Init => TypeOK
<1> SUFFICES ASSUME Init PROVE TypeOK
  OBVIOUS
<1>1. now \in 0 .. MaxTime /\ vote \in Vote /\ closed \subseteq Bill
  BY BallotAssumption DEF Init, BallotInit, Vote
<1>2. Unit \in Amounts
  BY ReserveAssumption DEF Amounts
<1>3. coins \subseteq Coin /\ \A c \in coins : c.at = "reserve"
  BY <1>2, BallotAssumption DEF Init, ReserveCoin, Coin
<1>4. QED BY <1>1, <1>3 DEF Init, EmptyBlock, TypeOK

\* The reserve, the treasury and the block keep their types, for every
\* issuance, set of bills and clock.
THEOREM TypeCorrect == Spec => []TypeOK
<1>1. QED BY TypeInit, TypeStep, PTL DEF Spec

\* A step moves units between coins and neither creates nor loses any
\* (sgt_reserve_inner_v1.clsp, remainder-conditions).
LEMMA PartitionStep ==
  ASSUME TypeOK, CoinsPartition, [Next]_vars
  PROVE  CoinsPartition'
<1>1. CASE UNCHANGED coins
  BY <1>1 DEF CoinsPartition
<1>2. ASSUME NEW c \in coins, NEW N, Replaces(c, N)
      PROVE  CoinsPartition'
  <2>1. coins' = (coins \ {c}) \cup N /\ HoldsOnce(N, c.units)
    BY <1>2 DEF Replaces
  <2>2. \A e \in N : e.units \subseteq c.units
    BY <2>1 DEF HoldsOnce
  <2>3. UNION {e.units : e \in coins'} = Unit
    <3>1. UNION {e.units : e \in N} = c.units
      BY <2>1 DEF HoldsOnce
    <3>2. UNION {e.units : e \in coins} = Unit
      BY DEF CoinsPartition
    <3>3. QED BY <2>1, <3>1, <3>2
  <2>4. \A e \in coins' : e.units # {}
    BY <2>1 DEF HoldsOnce, CoinsPartition
  <2>5. \A e, f \in coins' : e # f => e.units \cap f.units = {}
    BY <2>1, <2>2 DEF HoldsOnce, CoinsPartition
  <2>6. QED BY <2>3, <2>4, <2>5 DEF CoinsPartition
<1>3. QED BY <1>1, <1>2, CoinSteps DEF vars

\* However coins are locked, split, sold and returned, they hold every unit of
\* the issuance exactly once, for every issuance and every set of bills.
THEOREM UnitsConserved == Spec => []CoinsPartition
<1>1. Init => CoinsPartition
  BY ReserveAssumption DEF Init, CoinsPartition, ReserveCoin
<1>2. TypeOK /\ CoinsPartition /\ [Next]_vars => CoinsPartition'
  BY PartitionStep
<1>3. QED BY <1>1, <1>2, TypeCorrect, PTL DEF Spec
----------------------------------------------------------------------------
(***************************************************************************)
(* Payments.  The inductive invariant adds that coins are finitely many    *)
(* and that the coins paid for in this block are coins of a chain sale     *)
(* still to be spent: that is why TAKE can use a payment once only.        *)
(***************************************************************************)
PaidOpen ==
  /\ IsFiniteSet(coins)
  /\ \A c \in block.paid : c \in coins /\ c.at = "sale" /\ c.bill.rail = "chain"

PaidInv == TypeOK /\ PaidOpen /\ SalesPaid

\* The coins of bill b that the treasury has been paid for.
Settled(b) == {c \in coins : c.bill = b /\ c.at = "vault"} \cup {c \in block.paid : c.bill = b}

\* The paid coins stay open coins.
LEMMA PaidOpenStep ==
  ASSUME PaidInv, Next
  PROVE  PaidOpen'
<1> USE DEF PaidInv
<1>1. IsFiniteSet(coins')
  <2>1. ASSUME NEW c \in coins, NEW N, Replaces(c, N) PROVE IsFiniteSet(coins')
    <3>1. IsFiniteSet(coins \ {c})
      BY FS_Subset DEF PaidOpen
    <3>2. QED BY <2>1, <3>1, FS_Union DEF Replaces
  <2>2. QED BY <2>1, CoinSteps DEF PaidOpen
<1>2. ASSUME block'.paid \subseteq block.paid, coins \subseteq coins'
      PROVE  PaidOpen'
  BY <1>1, <1>2 DEF PaidOpen
<1>3. ASSUME NEW c \in coins, c.at # "sale", coins \ {c} \subseteq coins',
             block'.paid = block.paid
      PROVE  PaidOpen'
  BY <1>1, <1>3 DEF PaidOpen
<1>4. ASSUME NEW c, NEW next, SpendSale(c, next)
      PROVE  PaidOpen'
  <2>1. block'.paid = block.paid \ {c} /\ coins \ {c} \subseteq coins'
    BY <1>4 DEF SpendSale, TypeOK
  <2>2. QED BY <1>1, <2>1 DEF PaidOpen
<1>5. CASE ReserveSpend
  BY <1>3, <1>5 DEF ReserveSpend, Sponsor, Release, Allocate, Split, TypeOK
<1>6. CASE SaleSpend
  <2>1. ASSUME NEW c \in coins, Pay(c) PROVE PaidOpen'
    <3>1. block'.paid = block.paid \cup {c} /\ coins' = coins
      BY <2>1 DEF Pay, TypeOK
    <3>2. QED BY <1>1, <2>1, <3>1 DEF PaidOpen, Pay
  <2>2. QED BY <1>4, <1>6, <2>1 DEF SaleSpend, Take, ExternalTake, Return
<1>7. CASE TrackerSpend
  <2>1. ASSUME NEW c \in coins, NEW A \in Amounts, ExecuteAllocating(c, A) PROVE PaidOpen'
    BY <1>3, <2>1 DEF ExecuteAllocating, Split, TypeOK
  <2>2. CASE Execute
    BY <1>2, <2>2 DEF Execute, TypeOK
  <2>3. QED BY <1>2, <1>7, <2>1, <2>2 DEF TrackerSpend, Propose, CountVotes, Expire
<1>8. ASSUME NEW b \in Bill, AdminApprove(b) \/ Receipt(b) PROVE PaidOpen'
  BY <1>2, <1>8 DEF AdminApprove, Receipt, TypeOK
<1>9. ASSUME NEW t \in 0 .. MaxTime, NextBlock(t) PROVE PaidOpen'
  BY <1>2, <1>9 DEF NextBlock, EmptyBlock
<1>10. QED BY <1>5, <1>6, <1>7, <1>8, <1>9 DEF Next

\* The settled coins of a bill are finitely many.
LEMMA SettledFinite ==
  ASSUME PaidInv, NEW b
  PROVE  IsFiniteSet(Settled(b)) /\ Cardinality(Settled(b)) \in Nat
<1>1. Settled(b) \subseteq coins
  BY DEF PaidInv, PaidOpen, Settled
<1>2. QED BY <1>1, FS_Subset, FS_CardinalityType DEF PaidInv, PaidOpen

\* A step that pays nothing and delivers nothing of chain sale b settles no coin of it.
LEMMA NothingSettled ==
  ASSUME PaidInv, NEW b \in Bill, treasury' = treasury,
         Settled(b)' \subseteq Settled(b), Cardinality(Settled(b)) <= treasury[b]
  PROVE  Cardinality(Settled(b)') <= treasury'[b]
<1>1. treasury[b] \in Nat
  BY DEF PaidInv, TypeOK
<1>2. /\ IsFiniteSet(Settled(b)')
      /\ Cardinality(Settled(b)') <= Cardinality(Settled(b))
      /\ Cardinality(Settled(b)') \in Nat
  <2> DEFINE S == Settled(b)
             T == Settled(b)'
  <2>1. IsFiniteSet(S) /\ T \subseteq S
    BY SettledFinite
  <2> HIDE DEF S, T
  <2>2. IsFiniteSet(T) /\ Cardinality(T) <= Cardinality(S) /\ Cardinality(T) \in Nat
    BY <2>1, FS_Subset, FS_CardinalityType
  <2>3. QED BY <2>2 DEF S, T
<1>3. QED BY <1>1, <1>2, SettledFinite

\* An allocation settles nothing: it creates sale coins and grants only.
LEMMA SplitSettles ==
  ASSUME TypeOK, NEW c \in coins, NEW A \in Amounts, NEW g \in Bill, Split(c, A, g),
         NEW b \in Bill, b.kind = "sale", block'.paid = block.paid
  PROVE  Settled(b)' \subseteq Settled(b)
<1>1. Allocated(A, g).at = "vault" => Allocated(A, g).bill.kind # "sale"
  BY DEF Allocated, Split, SaleCoin, VaultCoin
<1>2. \A e \in coins' : e \in coins \/ e.at = "reserve" \/ e = Allocated(A, g)
  BY DEF Split, ReserveCoin
<1>3. QED BY <1>1, <1>2 DEF Settled

\* Each step keeps the payments ahead of the deliveries.
LEMMA PaidStep ==
  ASSUME PaidInv, Next, NEW b \in Bill, b.kind = "sale", b.rail = "chain"
  PROVE  Cardinality(Settled(b)') <= treasury'[b]
<1> USE DEF PaidInv
<1>1. Cardinality(Settled(b)) <= treasury[b] /\ treasury[b] \in Nat
  BY DEF SalesPaid, Settled, TypeOK
<1>2. ASSUME treasury' = treasury, Settled(b)' \subseteq Settled(b)
      PROVE  Cardinality(Settled(b)') <= treasury'[b]
  BY <1>1, <1>2, NothingSettled
<1>3. ASSUME treasury' = treasury, coins' = coins, block'.paid \subseteq block.paid
      PROVE  Cardinality(Settled(b)') <= treasury'[b]
  BY <1>2, <1>3 DEF Settled
<1>4. ASSUME NEW c \in coins, NEW A \in Amounts, NEW g \in Bill, Split(c, A, g),
             block'.paid = block.paid, treasury' = treasury
      PROVE  Cardinality(Settled(b)') <= treasury'[b]
  BY <1>2, <1>4, SplitSettles
<1>5. ASSUME NEW c \in coins, NEW next, next.at # "vault",
             coins' = (coins \ {c}) \cup {next}, block'.paid \subseteq block.paid,
             treasury' = treasury
      PROVE  Cardinality(Settled(b)') <= treasury'[b]
  BY <1>2, <1>5 DEF Settled
<1>6. ASSUME NEW c \in coins, Pay(c)
      PROVE  Cardinality(Settled(b)') <= treasury'[b]
  <2>1. coins' = coins /\ block'.paid = block.paid \cup {c} /\ c.bill \in Bill
    BY <1>6 DEF Pay, TypeOK
  <2>2. CASE c.bill # b
    <3>1. Settled(b)' = Settled(b)
      BY <2>1, <2>2 DEF Settled
    <3>2. treasury'[b] = treasury[b]
      BY <1>6, <2>2 DEF Pay, TypeOK
    <3>3. QED BY <1>1, <3>1, <3>2
  <2>3. CASE c.bill = b
    <3>1. Settled(b)' = Settled(b) \cup {c}
      BY <2>1, <2>3 DEF Settled
    <3>2. treasury'[b] = treasury[b] + 1
      BY <1>6, <2>3 DEF Pay, TypeOK
    <3>3. Cardinality(Settled(b) \cup {c}) <= Cardinality(Settled(b)) + 1
      BY SettledFinite, FS_AddElement
    <3>4. Cardinality(Settled(b) \cup {c}) \in Nat
      BY SettledFinite, FS_AddElement, FS_CardinalityType
    <3>5. QED BY <1>1, <3>1, <3>2, <3>3, <3>4, SettledFinite
  <2>4. QED BY <2>2, <2>3
<1>7. ASSUME NEW c \in coins, Take(c)
      PROVE  Cardinality(Settled(b)') <= treasury'[b]
  <2> DEFINE v == VaultCoin(c.units, c.bill)
  <2>1. /\ coins' = (coins \ {c}) \cup {v} /\ block'.paid = block.paid \ {c}
        /\ treasury' = treasury /\ c \in block.paid /\ v.bill = c.bill /\ c.at = "sale"
    BY <1>7 DEF Take, SpendSale, TypeOK, VaultCoin, ballotAndMoney
  <2> HIDE DEF v
  <2>2. CASE c.bill # b
    BY <1>2, <2>1, <2>2 DEF Settled
  <2>3. CASE c.bill = b
    <3> DEFINE S == Settled(b) \ {c}
    <3>1. c \in Settled(b) /\ Settled(b)' \subseteq S \cup {v}
      BY <2>1, <2>3 DEF Settled
    <3>2. /\ IsFiniteSet(S) /\ Cardinality(S) = Cardinality(Settled(b)) - 1
          /\ Cardinality(S) \in Nat
      BY <3>1, SettledFinite, FS_RemoveElement, FS_CardinalityType
    <3> HIDE DEF S
    <3>3. /\ IsFiniteSet(S \cup {v})
          /\ Cardinality(S \cup {v}) \in Nat /\ Cardinality(S \cup {v}) <= Cardinality(S) + 1
      <4>1. /\ IsFiniteSet(S \cup {v})
            /\ Cardinality(S \cup {v}) = IF v \in S THEN Cardinality(S) ELSE Cardinality(S) + 1
        BY <3>2, FS_AddElement, Zenon
      <4>2. QED BY <3>2, <4>1
    <3> DEFINE T == Settled(b)'
    <3>4. T \subseteq S \cup {v}
      BY <3>1
    <3> HIDE DEF T
    <3>5. Cardinality(T) <= Cardinality(S \cup {v}) /\ Cardinality(T) \in Nat
      BY <3>3, <3>4, FS_Subset, FS_CardinalityType
    <3>6. Cardinality(T) <= treasury[b]
      BY <1>1, <3>2, <3>3, <3>5, SettledFinite
    <3>7. QED BY <2>1, <3>6 DEF T
  <2>4. QED BY <2>2, <2>3
<1>8. ASSUME NEW c \in coins, ExternalTake(c)
      PROVE  Cardinality(Settled(b)') <= treasury'[b]
  <2> DEFINE v == VaultCoin(c.units, c.bill)
  <2>1. /\ coins' = (coins \ {c}) \cup {v} /\ block'.paid = block.paid \ {c}
        /\ treasury' = treasury /\ v.bill # b
    BY <1>8 DEF ExternalTake, SpendSale, TypeOK, VaultCoin, ballotAndMoney
  <2> HIDE DEF v
  <2>2. QED BY <1>2, <2>1 DEF Settled
<1>9. CASE ReserveSpend
  <2>1. ASSUME NEW c \in coins, NEW g \in Bill, NEW d \in 0 .. MaxTime, Sponsor(c, g, d)
        PROVE  Cardinality(Settled(b)') <= treasury'[b]
    <3>1. LockedCoin(c.units, g, d).at # "vault"
      BY DEF LockedCoin
    <3>2. QED BY <2>1, <3>1, <1>5 DEF Sponsor, ballotAndMoney, TypeOK
  <2>2. ASSUME NEW c \in coins, Release(c)
        PROVE  Cardinality(Settled(b)') <= treasury'[b]
    <3>1. ReserveCoin(c.units).at # "vault"
      BY DEF ReserveCoin
    <3>2. QED BY <2>2, <3>1, <1>5 DEF Release, ballotAndMoney
  <2>3. ASSUME NEW c \in coins, NEW A \in Amounts, NEW g \in Bill, Allocate(c, A, g)
        PROVE  Cardinality(Settled(b)') <= treasury'[b]
    BY <2>3, <1>4 DEF Allocate, ballotAndMoney, TypeOK
  <2>4. QED BY <1>9, <2>1, <2>2, <2>3 DEF ReserveSpend
<1>10. ASSUME NEW c \in coins, Return(c)
       PROVE  Cardinality(Settled(b)') <= treasury'[b]
  <2>1. ReserveCoin(c.units).at # "vault"
    BY DEF ReserveCoin
  <2>2. QED BY <1>10, <2>1, <1>5 DEF Return, SpendSale, ballotAndMoney, TypeOK
<1>11. CASE TrackerSpend
  <2>1. ASSUME NEW c \in coins, NEW A \in Amounts, ExecuteAllocating(c, A)
        PROVE  Cardinality(Settled(b)') <= treasury'[b]
    <3>1. vote.bill \in Bill
      BY <2>1 DEF ExecuteAllocating, Close, VoteOpen, TypeOK, Vote, NoVote
    <3>2. QED BY <2>1, <3>1, <1>4 DEF ExecuteAllocating, TypeOK
  <2>2. CASE Execute
    BY <1>3, <2>2 DEF Execute, TypeOK
  <2>3. QED BY <1>3, <1>11, <2>1, <2>2 DEF TrackerSpend, Propose, CountVotes, Expire
<1>12. ASSUME NEW g \in Bill, AdminApprove(g) \/ Receipt(g)
       PROVE  Cardinality(Settled(b)') <= treasury'[b]
  BY <1>3, <1>12 DEF AdminApprove, Receipt, ballotAndMoney, TypeOK
<1>13. ASSUME NEW t \in 0 .. MaxTime, NextBlock(t)
       PROVE  Cardinality(Settled(b)') <= treasury'[b]
  BY <1>3, <1>13 DEF NextBlock, EmptyBlock
<1>14. QED BY <1>6, <1>7, <1>8, <1>9, <1>10, <1>11, <1>12, <1>13 DEF Next, SaleSpend

\* The treasury has a payment for every coin delivered on a chain rail, for every
\* issuance, set of bills and number of coins of one sale.
THEOREM DeliveriesPaid == Spec => []SalesPaid
<1>1. Init => PaidInv
  <2> SUFFICES ASSUME Init PROVE PaidInv
    OBVIOUS
  <2>1. PaidOpen
    BY FS_Singleton DEF Init, EmptyBlock, PaidOpen
  <2>2. SalesPaid
    <3>1. \A b \in Bill : {c \in coins : c.bill = b /\ c.at = "vault"} \cup
                          {c \in block.paid : c.bill = b} = {}
      <4>1. \A c \in coins : c.at = "reserve"
        BY DEF Init, ReserveCoin
      <4>2. block.paid = {}
        BY DEF Init, EmptyBlock
      <4>3. QED BY <4>1, <4>2
    <3>2. Cardinality({}) = 0 /\ \A b \in Bill : treasury[b] = 0
      BY FS_EmptySet DEF Init
    <3>3. QED BY <3>1, <3>2 DEF SalesPaid
  <2>3. QED BY <2>1, <2>2, TypeInit DEF PaidInv
<1>2. PaidInv /\ [Next]_vars => PaidInv'
  <2>1. ASSUME PaidInv, Next PROVE PaidInv'
    BY <2>1, PaidOpenStep, PaidStep, TypeStep DEF PaidInv, SalesPaid, Settled
  <2>2. ASSUME PaidInv, UNCHANGED vars PROVE PaidInv'
    BY <2>2, TypeStep DEF PaidInv, PaidOpen, SalesPaid, vars
  <2>3. QED BY <2>1, <2>2
<1>3. PaidInv => SalesPaid
  BY DEF PaidInv
<1>4. QED BY <1>1, <1>2, <1>3, PTL DEF Spec
----------------------------------------------------------------------------
\* A coin locked behind a bill goes back to the reserve whole or is allocated for
\* that bill and no other; behind a redemption it can only go back.
THEOREM LockServesItsBill == Spec => LockedForItsBill
<1> DEFINE Served(c) ==
      \/ c \in coins'
      \/ ReserveCoin(c.units) \in coins'
      \/ c.bill.kind # "redemption" /\
           \E A \in Amounts : A \subseteq c.units /\ Allocated(A, c.bill) \in coins'
<1>1. ASSUME TypeOK, Next, NEW c \in coins, c.at = "locked"
      PROVE  Served(c)
  <2>1. ASSUME NEW e \in coins, e.at # "locked", coins \ {e} \subseteq coins'
        PROVE  Served(c)
    BY <1>1, <2>1
  <2>2. CASE UNCHANGED coins
    BY <1>1, <2>2
  <2>3. ASSUME NEW e \in coins, Release(e)
        PROVE  Served(c)
    <3>1. coins' = (coins \ {e}) \cup {ReserveCoin(e.units)}
      BY <2>3 DEF Release
    <3>2. CASE c = e
      BY <3>1, <3>2
    <3>3. CASE c # e
      BY <1>1, <3>1, <3>3
    <3>4. QED BY <3>2, <3>3
  <2>4. ASSUME NEW e \in coins, NEW A \in Amounts, ExecuteAllocating(e, A)
        PROVE  Served(c)
    <3>1. /\ Split(e, A, vote.bill)
          /\ e.at = "reserve" \/ (e.at = "locked" /\ e.bill = vote.bill)
      BY <2>4 DEF ExecuteAllocating
    <3>2. CASE c # e
      BY <1>1, <3>1, <3>2 DEF Split
    <3>3. CASE c = e
      <4>1. c.bill = vote.bill
        BY <1>1, <3>1, <3>3
      <4>2. A \subseteq c.units /\ Allocated(A, c.bill) \in coins' /\ c.bill.kind # "redemption"
        BY <3>1, <3>3, <4>1 DEF Split
      <4>3. QED BY <4>2
    <3>4. QED BY <3>2, <3>3
  <2>5. CASE ReserveSpend
    BY <2>1, <2>3, <2>5 DEF ReserveSpend, Sponsor, Allocate, Split
  <2>6. CASE SaleSpend
    BY <2>1, <2>2, <2>6 DEF SaleSpend, Pay, Take, ExternalTake, Return, SpendSale
  <2>7. CASE TrackerSpend
    BY <2>2, <2>4, <2>7 DEF TrackerSpend, Propose, CountVotes, Execute, Expire
  <2>8. QED BY <1>1, <2>2, <2>5, <2>6, <2>7 DEF Next, AdminApprove, Receipt, NextBlock
<1>2. ASSUME TypeOK, Next
      PROVE  \A c \in coins : c.at = "locked" => Served(c)
  BY <1>1, <1>2
<1>3. TypeOK /\ [Next]_vars => [\A c \in coins : c.at = "locked" => Served(c)]_vars
  BY <1>2
<1>4. QED BY <1>3, TypeCorrect, PTL DEF Spec, LockedForItsBill
=============================================================================
