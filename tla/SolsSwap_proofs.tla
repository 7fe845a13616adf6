--------------------------- MODULE SolsSwap_proofs ---------------------------
(***************************************************************************)
(* Proofs about SolsPool and SolsSwap for every set of deeds, vaults,      *)
(* shares, listings, fees, bootstrap price and quotes: the arithmetic of   *)
(* the pool first, then its inventory and the coins, which need the laws   *)
(* of a sum over a set, then what quotes may do to them.                   *)
(***************************************************************************)
EXTENDS SolsSwap, FiniteSetTheorems, WellFoundedInduction, TLAPS

\* Division rounds down to the largest multiple of the divisor.
LEMMA FloorBounds ==
  ASSUME NEW n \in Nat, NEW d \in Nat \ {0}
  PROVE  n \div d \in Nat /\ (n \div d) * d <= n /\ n < (n \div d + 1) * d
OBVIOUS

\* CeilDiv rounds up to the smallest multiple of the divisor.
LEMMA CeilBounds ==
  ASSUME NEW n \in Nat, NEW d \in Nat \ {0}
  PROVE  CeilDiv(n, d) \in Nat /\ n <= CeilDiv(n, d) * d /\ CeilDiv(n, d) * d < n + d
<1> DEFINE q == (n + d - 1) \div d
<1>1. n + d - 1 \in Nat
  OBVIOUS
<1>2. q \in Nat /\ q * d <= n + d - 1 /\ n + d - 1 < (q + 1) * d
  BY <1>1, FloorBounds
<1>3. (q + 1) * d = q * d + d /\ q * d \in Nat
  BY <1>2
<1> HIDE DEF q
<1>4. q \in Nat /\ n <= q * d /\ q * d < n + d
  BY <1>2, <1>3
<1>5. QED BY <1>4 DEF q, CeilDiv
\* A payout rounded down leaves every circulating Sols its backing.
LEMMA PayoutKeepsNav ==
  ASSUME NEW v \in Nat, NEW c \in Nat, NEW B \in Nat \ {0}, NEW s \in Nat, s * B <= v * c
  PROVE  (B + v) * c >= B * (c + s)
<1>1. (B + v) * c = B * c + v * c /\ B * (c + s) = B * c + s * B
  OBVIOUS
<1>2. B * c \in Nat /\ v * c \in Nat /\ s * B \in Nat
  OBVIOUS
<1>3. QED BY <1>1, <1>2

\* A principal rounded up leaves every circulating Sols its backing.
LEMMA PrincipalKeepsNav ==
  ASSUME NEW v \in Nat, NEW c \in Nat, NEW B \in Nat, NEW p \in Nat,
         v <= B, p <= c, v * c <= p * B
  PROVE  (B - v) * c >= B * (c - p)
<1>1. (B - v) * c = B * c - v * c /\ B * (c - p) = B * c - p * B
  OBVIOUS
<1>2. B * c \in Nat /\ v * c \in Nat /\ p * B \in Nat
  OBVIOUS
<1>3. QED BY <1>1, <1>2

\* What is left of an inequality between multiples of a positive number.
LEMMA CancelFactor ==
  ASSUME NEW a \in Nat, NEW b \in Nat, NEW k \in Nat \ {0}, a * k <= b * k
  PROVE  a <= b
<1> SUFFICES ASSUME b + 1 <= a PROVE FALSE
  OBVIOUS
<1>1. (b + 1) * k <= a * k
  <2>1. PICK j \in Nat : a = b + 1 + j
    <3>1. a - (b + 1) \in Nat /\ a = b + 1 + (a - (b + 1))
      OBVIOUS
    <3>2. QED BY <3>1
  <2>2. a * k = (b + 1) * k + j * k /\ j * k \in Nat /\ (b + 1) * k \in Nat
    BY <2>1
  <2>3. QED BY <2>2
<1>2. (b + 1) * k = b * k + k /\ b * k \in Nat /\ a * k \in Nat
  OBVIOUS
<1>3. QED BY <1>1, <1>2

\* The buy-back price of a deposit, rounded up, covers its payout.
LEMMA BuyBackCovers ==
  ASSUME NEW v \in Nat, NEW c \in Nat, NEW B \in Nat, NEW s \in Nat, NEW p \in Nat,
         B + v # 0, s * B <= v * c, v * (c + s) <= p * (B + v)
  PROVE  s <= p
<1>1. v * (c + s) = v * c + s * v /\ s * (B + v) = s * B + s * v
  OBVIOUS
<1>2. v * c \in Nat /\ s * v \in Nat /\ s * B \in Nat /\ p * (B + v) \in Nat
  OBVIOUS
<1>3. s * (B + v) <= p * (B + v)
  BY <1>1, <1>2
<1>4. B + v \in Nat \ {0}
  OBVIOUS
<1>5. QED BY <1>3, <1>4, CancelFactor

----------------------------------------------------------------------------
(***************************************************************************)
(* Sums.  The library folds a sum over a set one chosen element at a time, *)
(* and counting shows that the choice does not matter: the sum is the      *)
(* number of pairs that hold one unit each.  The laws of a sum are those   *)
(* of cardinality.                                                         *)
(***************************************************************************)
Units(f, S) == UNION {{x} \X (1 .. f[x]) : x \in S}

\* The units of one element, of a finite set and of two disjoint ones.
LEMMA UnitsOfOne ==
  ASSUME NEW x, NEW n \in Nat
  PROVE  IsFiniteSet({x} \X (1 .. n)) /\ Cardinality({x} \X (1 .. n)) = n
<1>1. IsFiniteSet({x}) /\ Cardinality({x}) = 1
  BY FS_Singleton
<1>2. IsFiniteSet(1 .. n) /\ Cardinality(1 .. n) = n
  BY FS_Interval
<1>3. /\ IsFiniteSet({x} \X (1 .. n))
      /\ Cardinality({x} \X (1 .. n)) = Cardinality({x}) * Cardinality(1 .. n)
  BY <1>1, <1>2, FS_Product, Zenon
<1>4. QED BY <1>1, <1>2, <1>3

LEMMA UnitsFinite ==
  ASSUME NEW S, IsFiniteSet(S), NEW f, \A y \in S : f[y] \in Nat
  PROVE  IsFiniteSet(Units(f, S)) /\ Cardinality(Units(f, S)) \in Nat
<1> DEFINE parts == {{x} \X (1 .. f[x]) : x \in S}
<1>1. IsFiniteSet(parts)
  <2> DEFINE g == [x \in S |-> {x} \X (1 .. f[x])]
  <2>1. g \in Surjection(S, parts)
    BY DEF Surjection
  <2>2. QED BY <2>1, FS_Surjection
<1>2. ASSUME NEW T \in parts PROVE IsFiniteSet(T)
  <2>1. PICK x \in S : T = {x} \X (1 .. f[x])
    OBVIOUS
  <2>2. IsFiniteSet({x} \X (1 .. f[x]))
    BY UnitsOfOne, Zenon
  <2>3. QED BY <2>1, <2>2
<1>3. QED BY <1>1, <1>2, FS_UNION, FS_CardinalityType DEF Units

LEMMA UnitsUnion ==
  ASSUME NEW S, IsFiniteSet(S), NEW T, IsFiniteSet(T), S \cap T = {},
         NEW f, \A y \in S \cup T : f[y] \in Nat
  PROVE  Cardinality(Units(f, S \cup T)) = Cardinality(Units(f, S)) + Cardinality(Units(f, T))
<1> DEFINE A == Units(f, S)
           B == Units(f, T)
<1>1. Units(f, S \cup T) = A \cup B /\ A \cap B = {}
  BY DEF Units
<1>2. IsFiniteSet(A) /\ IsFiniteSet(B) /\ Cardinality(A) \in Nat /\ Cardinality(B) \in Nat
  BY UnitsFinite
<1> HIDE DEF A, B
<1>3. Cardinality(A \cup B) = Cardinality(A) + Cardinality(B)
  <2>1. Cardinality(A \cup B) = Cardinality(A) + Cardinality(B) - Cardinality(A \cap B)
    BY <1>2, FS_Union, Zenon
  <2>2. Cardinality(A \cap B) = 0
    BY <1>1, FS_EmptySet
  <2>3. QED BY <1>2, <2>1, <2>2
<1>4. QED BY <1>1, <1>3 DEF A, B

\* The sum recurs by taking away one element at a time.
First(s) == CHOOSE x \in s : TRUE

SumsDown(h, f, S) ==
  h = [s \in SUBSET S |-> IF s = {} THEN 0 ELSE f[First(s)] + h[s \ {First(s)}]]

LEMMA SumCounts ==
  ASSUME NEW S, IsFiniteSet(S), NEW f, \A y \in S : f[y] \in Nat
  PROVE  SumFunctionOnSet(f, S) = Cardinality(Units(f, S))
<1> DEFINE g == [s \in SUBSET S |-> Cardinality(Units(f, s))]
           h == CHOOSE h : SumsDown(h, f, S)
<1>1. SumsDown(g, f, S)
  <2>1. ASSUME NEW s \in SUBSET S, s # {} PROVE g[s] = f[First(s)] + g[s \ {First(s)}]
    <3> DEFINE x == First(s)
               rest == s \ {x}
    <3>1. x \in s
      BY <2>1 DEF First
    <3> HIDE DEF x
    <3>2. /\ IsFiniteSet({x}) /\ IsFiniteSet(rest) /\ {x} \cap rest = {} /\ {x} \cup rest = s
      BY <3>1, FS_Singleton, FS_Subset
    <3>3. Units(f, {x}) = {x} \X (1 .. f[x])
      BY DEF Units
    <3>4. Cardinality(Units(f, {x})) = f[x]
      BY <3>1, <3>3, UnitsOfOne
    <3>5. Cardinality(Units(f, {x} \cup rest)) =
            Cardinality(Units(f, {x})) + Cardinality(Units(f, rest))
      BY <3>1, <3>2, UnitsUnion
    <3>6. QED BY <3>1, <3>2, <3>4, <3>5 DEF x
  <2>2. g[{}] = 0
    BY FS_EmptySet DEF Units
  <2>3. QED BY <2>1, <2>2 DEF SumsDown
<1>2. SumsDown(h, f, S)
  BY <1>1
<1>3. SumFunctionOnSet(f, S) = h[S]
  BY DEF SumFunctionOnSet, FoldFunctionOnSet, MapThenFoldSet, SumsDown, First
<1> HIDE DEF g, h
<1>4. ASSUME NEW s \in SUBSET S PROVE h[s] = g[s]
  <2> DEFINE bad == {t \in SUBSET S : h[t] # g[t]}
  <2>1. SUFFICES ASSUME bad # {} PROVE FALSE
    OBVIOUS
  <2>2. IsWellFoundedOn(StrictSubsetOrdering(S), SUBSET S)
    BY FS_StrictSubsetOrderingWellFounded, FS_FiniteSubsetsOfFinite
  <2>3. PICK t \in bad : \A u \in bad : <<u, t>> \notin StrictSubsetOrdering(S)
    BY <2>1, <2>2, WFMin
  <2>4. t # {}
    BY <1>1, <1>2, <2>3 DEF SumsDown
  <2> DEFINE u == t \ {First(t)}
  <2>5. First(t) \in t
    BY <2>4 DEF First
  <2>6. u \in SUBSET S /\ <<u, t>> \in StrictSubsetOrdering(S)
    BY <2>5 DEF StrictSubsetOrdering
  <2>7. h[u] = g[u]
    BY <2>3, <2>6
  <2>8. h[t] = f[First(t)] + h[u] /\ g[t] = f[First(t)] + g[u]
    BY <1>1, <1>2, <2>4 DEF SumsDown
  <2>9. QED BY <2>7, <2>8
<1>5. QED BY <1>3, <1>4 DEF g, h

\* What f assigns to the elements of S, added up: a natural number.
Total(f, S) == SumFunction([x \in S |-> f[x]])

LEMMA TotalCounts ==
  ASSUME NEW S, IsFiniteSet(S), NEW f, \A y \in S : f[y] \in Nat
  PROVE  Total(f, S) = Cardinality(Units(f, S)) /\ Total(f, S) \in Nat
<1> DEFINE g == [x \in S |-> f[x]]
<1>1. Units(g, S) = Units(f, S)
  BY DEF Units
<1>2. SumFunctionOnSet(g, S) = Cardinality(Units(g, S))
  BY SumCounts
<1>3. Total(f, S) = SumFunctionOnSet(g, S)
  BY DEF Total, SumFunction
<1>4. QED BY <1>1, <1>2, <1>3, UnitsFinite

LEMMA TotalUnion ==
  ASSUME NEW S, IsFiniteSet(S), NEW T, IsFiniteSet(T), S \cap T = {},
         NEW f, \A y \in S \cup T : f[y] \in Nat
  PROVE  Total(f, S \cup T) = Total(f, S) + Total(f, T)
<1>1. IsFiniteSet(S \cup T)
  BY FS_Union
<1>2. QED BY <1>1, TotalCounts, UnitsUnion

LEMMA TotalEmpty == ASSUME NEW f PROVE Total(f, {}) = 0
<1>1. IsFiniteSet({}) /\ Units(f, {}) = {} /\ Cardinality({}) = 0
  BY FS_EmptySet DEF Units
<1>2. QED BY <1>1, TotalCounts

LEMMA TotalOne ==
  ASSUME NEW f, NEW x, f[x] \in Nat
  PROVE  Total(f, {x}) = f[x]
<1>1. IsFiniteSet({x}) /\ Units(f, {x}) = {x} \X (1 .. f[x]) /\ \A y \in {x} : f[y] \in Nat
  BY FS_Singleton DEF Units
<1>2. Total(f, {x}) = Cardinality(Units(f, {x}))
  BY <1>1, TotalCounts
<1>3. Cardinality({x} \X (1 .. f[x])) = f[x]
  BY UnitsOfOne
<1>4. QED BY <1>1, <1>2, <1>3

\* An element more, an element less, and what one element can be at most.
LEMMA TotalAdd ==
  ASSUME NEW S, IsFiniteSet(S), NEW x, x \notin S, NEW f, \A y \in S \cup {x} : f[y] \in Nat
  PROVE  Total(f, S \cup {x}) = Total(f, S) + f[x]
<1>1. IsFiniteSet({x}) /\ S \cap {x} = {}
  BY FS_Singleton
<1>2. Total(f, S \cup {x}) = Total(f, S) + Total(f, {x})
  BY <1>1, TotalUnion
<1>3. Total(f, {x}) = f[x]
  BY TotalOne
<1>4. QED BY <1>2, <1>3

LEMMA TotalRemove ==
  ASSUME NEW S, IsFiniteSet(S), NEW x \in S, NEW f, \A y \in S : f[y] \in Nat
  PROVE  /\ Total(f, S) = Total(f, S \ {x}) + f[x]
         /\ Total(f, S \ {x}) \in Nat /\ f[x] <= Total(f, S)
<1> DEFINE T == S \ {x}
<1>1. IsFiniteSet(T) /\ T \cup {x} = S /\ x \notin T
  BY FS_Subset
<1>2. \A y \in T \cup {x} : f[y] \in Nat
  BY <1>1
<1> HIDE DEF T
<1>3. Total(f, T \cup {x}) = Total(f, T) + f[x]
  BY <1>1, <1>2, TotalAdd
<1>4. Total(f, T) \in Nat /\ f[x] \in Nat
  BY <1>1, <1>2, TotalCounts
<1>5. Total(f, S) = Total(f, T) + f[x]
  BY <1>1, <1>3
<1>6. Total(f, T) \in Nat /\ f[x] <= Total(f, S)
  BY <1>4, <1>5
<1>7. QED BY <1>5, <1>6 DEF T

\* A set of positive amounts has no more elements than its total.
LEMMA TotalBoundsCount ==
  ASSUME NEW S, IsFiniteSet(S), NEW f, \A y \in S : f[y] \in Nat \ {0}
  PROVE  Cardinality(S) \in Nat /\ Cardinality(S) <= Total(f, S)
<1> DEFINE g == [x \in S |-> <<x, 1>>]
<1>1. g \in Injection(S, Units(f, S))
  <2>1. ASSUME NEW x \in S PROVE <<x, 1>> \in Units(f, S)
    <3>1. 1 \in 1 .. f[x]
      OBVIOUS
    <3>2. QED BY <3>1 DEF Units
  <2>2. QED BY <2>1 DEF Injection, IsInjective
<1>2. IsFiniteSet(Units(f, S)) /\ Cardinality(Units(f, S)) \in Nat
  BY UnitsFinite
<1>3. Cardinality(S) <= Cardinality(Units(f, S))
  BY <1>1, <1>2, FS_Injection
<1>4. QED BY <1>3, TotalCounts, FS_CardinalityType

----------------------------------------------------------------------------
(***************************************************************************)
(* The prices: NavNeverFalls and NoFreeRoundTrip need a pool whose numbers *)
(* are natural and that is untouched until its first deposit.              *)
(***************************************************************************)
Untouched == ~pool.bootstrap => pool.nav = 0 /\ Circulating = 0

IInv == TypeOK /\ Untouched

\* A fee is never zero.
LEMMA FeePositive ==
  ASSUME NEW p \in Nat \ {0}
  PROVE  Fee(p) \in Nat /\ Fee(p) >= 1
<1>1. p * FeeBps \in Nat \ {0} /\ FeeDenominator \in Nat \ {0}
  BY MarketAssumption
<1>2. Fee(p) \in Nat /\ p * FeeBps <= Fee(p) * FeeDenominator
  BY <1>1, CeilBounds DEF Fee
<1>3. Fee(p) # 0
  BY <1>1, <1>2
<1>4. QED BY <1>2, <1>3

\* A listed collection gives each of its deeds a positive value.
LEMMA ValuePositive ==
  ASSUME NEW l \in Listing, NEW d \in Deed
  PROVE  GovernedValue(l, d) \in Nat \ {0}
<1>1. l.nav \in Nat \ {0} /\ Share[d] \in Nat \ {0} /\ ShareDenominator \in Nat \ {0}
  BY ListingAssumption, DeedAssumption
<1>2. l.nav * Share[d] \in Nat \ {0}
  BY <1>1
<1>3. GovernedValue(l, d) \in Nat /\ l.nav * Share[d] <= GovernedValue(l, d) * ShareDenominator
  BY <1>1, <1>2, CeilBounds DEF GovernedValue
<1>4. GovernedValue(l, d) # 0
  BY <1>1, <1>2, <1>3
<1>5. QED BY <1>3, <1>4

\* In a state a swap may leave, the amounts of the pool are natural numbers.
LEMMA SwapAmounts ==
  ASSUME IInv, NEW e \in evidence, SwapAllowed(e)
  PROVE  /\ Circulating \in Nat /\ Backing \in Nat /\ pool.reserve \in Nat \ {0}
         /\ e.listing \in Listing
BY DEF IInv, TypeOK, Pool, Evidence, SwapAllowed, Circulating, Backing

\* What a deposit writes into the pool: the deed's record, s minted and paid out
\* of the reserve.
LEMMA DepositRecord ==
  ASSUME IInv, NEW d \in Deed, NEW e \in evidence, DeedToSols(d, e)
  PROVE  \E rec \in InventoryRecord, s \in Nat \ {0}, paid \in Nat :
           /\ rec.deed = d /\ d \notin Held
           /\ paid < pool.reserve /\ paid <= s
           /\ Backing \in Nat /\ Circulating \in Nat
           /\ pool.bootstrap => Backing # 0 /\ s * Backing <= rec.value * Circulating
           /\ pool' \in Pool /\ pool'.bootstrap
           /\ pool'.inventory = pool.inventory \cup {rec}
           /\ pool'.nav = pool.nav + rec.value /\ pool'.count = pool.count + 1
           /\ pool'.total = pool.total + s - paid /\ pool'.total <= MaxSols
           /\ pool'.reserve = pool.reserve - paid
<1> DEFINE v == GovernedValue(e.listing, d)
           s == SellerSols(v)
           paid == ReservePaid(s)
           rec == [deed |-> d, value |-> v, version |-> e.listing.version,
                   until |-> e.listing.until]
<1>1. /\ SwapAllowed(e) /\ s > 0 /\ (pool.bootstrap => Backing # 0) /\ d \notin Held
      /\ pool.total + s - paid <= MaxSols
      /\ pool' = [pool EXCEPT
           !.bootstrap = TRUE, !.inventory = @ \cup {rec}, !.nav = @ + v, !.count = @ + 1,
           !.total = @ + s - paid, !.reserve = @ - paid, !.version = @ + 1]
  BY DEF DeedToSols
<1>2. /\ Circulating \in Nat /\ Backing \in Nat /\ pool.reserve \in Nat \ {0}
      /\ e.listing \in Listing
  BY <1>1, SwapAmounts
<1>3. v \in Nat \ {0}
  BY <1>2, ValuePositive
<1>4. s \in Nat /\ (pool.bootstrap => s * Backing <= v * Circulating)
  <2>1. CASE pool.bootstrap
    <3>1. v * Circulating \in Nat /\ Backing \in Nat \ {0}
      BY <1>1, <1>2, <1>3, <2>1
    <3>2. s = (v * Circulating) \div Backing
      BY <2>1 DEF SellerSols
    <3> HIDE DEF v, s
    <3>3. QED BY <3>1, <3>2, FloorBounds
  <2>2. CASE ~pool.bootstrap
    <3>1. v * SolsUnit \in Nat /\ BootstrapValue \in Nat \ {0}
      BY <1>3, MarketAssumption
    <3>2. s = (v * SolsUnit) \div BootstrapValue
      BY <2>2 DEF SellerSols
    <3> HIDE DEF v, s
    <3>3. QED BY <2>2, <3>1, <3>2, FloorBounds
  <2>3. QED BY <2>1, <2>2
<1> HIDE DEF s, v
<1>5. s \in Nat \ {0}
  BY <1>1, <1>4
<1>6. paid \in Nat /\ paid < pool.reserve /\ paid <= s
  BY <1>2, <1>5 DEF ReservePaid, Lesser
<1> HIDE DEF paid
<1>7. rec \in InventoryRecord
  BY <1>2, <1>3, ListingAssumption DEF InventoryRecord
<1>8. rec.deed = d /\ rec.value = v
  OBVIOUS
<1> HIDE DEF rec
<1>9. /\ pool'.bootstrap = TRUE /\ pool'.inventory = pool.inventory \cup {rec}
      /\ pool'.nav = pool.nav + v /\ pool'.count = pool.count + 1
      /\ pool'.total = pool.total + s - paid /\ pool'.reserve = pool.reserve - paid
      /\ pool'.version = pool.version + 1
  BY <1>1 DEF IInv, TypeOK, Pool
<1>10. pool' \in Pool
  <2>1. /\ pool.nav + v \in Nat /\ pool.count + 1 \in Nat /\ pool.total + s - paid \in Nat
        /\ pool.reserve - paid \in Nat /\ pool.version + 1 \in Nat
        /\ pool.inventory \cup {rec} \in SUBSET InventoryRecord
    BY <1>3, <1>5, <1>6, <1>7 DEF IInv, TypeOK, Pool
  <2>2. QED BY <1>1, <2>1 DEF IInv, TypeOK, Pool
<1>11. QED BY <1>1, <1>2, <1>4, <1>5, <1>6, <1>7, <1>8, <1>9, <1>10

\* What a deposit does to the prices: v is the deed's value, s the payout.
LEMMA DepositEffect ==
  ASSUME IInv, NEW d \in Deed, NEW e \in evidence, DeedToSols(d, e)
  PROVE  \E v \in Nat \ {0}, s \in Nat \ {0} :
           /\ pool' \in Pool /\ pool'.bootstrap
           /\ \A r \in pool'.inventory \ pool.inventory : r.value = v
           /\ Backing' = Backing + v /\ Circulating' = Circulating + s
           /\ Backing \in Nat /\ Circulating \in Nat
           /\ pool.bootstrap => Backing # 0 /\ s * Backing <= v * Circulating
<1>1. PICK rec \in InventoryRecord, s \in Nat \ {0}, paid \in Nat :
           /\ Backing \in Nat /\ Circulating \in Nat
           /\ pool.bootstrap => Backing # 0 /\ s * Backing <= rec.value * Circulating
           /\ pool' \in Pool /\ pool'.bootstrap
           /\ pool'.inventory = pool.inventory \cup {rec}
           /\ pool'.nav = pool.nav + rec.value
           /\ pool'.total = pool.total + s - paid
           /\ pool'.reserve = pool.reserve - paid
  BY DepositRecord
<1>2. rec.value \in Nat \ {0}
  BY DEF InventoryRecord
<1>3. Circulating' = Circulating + s /\ Backing' = Backing + rec.value
  BY <1>1 DEF Circulating, Backing, IInv, TypeOK, Pool
<1>4. QED BY <1>1, <1>2, <1>3

\* What a purchase does: p is the principal of a deed of value v.
LEMMA PurchaseEffect ==
  ASSUME IInv, NEW r \in pool.inventory, NEW e \in evidence, SolsToDeed(r, e)
  PROVE  \E v \in Nat \ {0}, p \in Nat \ {0} :
           /\ pool' \in Pool /\ pool'.bootstrap
           /\ v = r.value /\ pool'.inventory = pool.inventory \ {r}
           /\ pool'.nav = pool.nav - v /\ pool'.count = pool.count - 1
           /\ pool'.total = pool.total /\ pool'.reserve = pool.reserve + p
           /\ Backing' = Backing - v /\ Circulating' = Circulating - p
           /\ Backing \in Nat /\ Circulating \in Nat
           /\ v <= Backing /\ p <= Circulating
           /\ v * Circulating <= p * Backing
<1> DEFINE v == r.value
           p == BuyerPrincipal(v)
<1>1. /\ SwapAllowed(e) /\ p > 0 /\ pool.reserve + p <= pool.total
      /\ pool.nav >= v /\ Backing > 0
      /\ pool.count > 0
      /\ pool' = [pool EXCEPT
           !.bootstrap = TRUE, !.inventory = @ \ {r}, !.nav = @ - v, !.count = @ - 1,
           !.reserve = @ + p, !.version = @ + 1]
  BY DEF SolsToDeed
<1>2. Circulating \in Nat /\ Backing \in Nat \ {0} /\ pool.reserve \in Nat
  BY <1>1, SwapAmounts
<1>3. v \in Nat \ {0} /\ v <= Backing
  BY <1>1 DEF IInv, TypeOK, Pool, InventoryRecord, Backing
<1> HIDE DEF v
<1>4. p \in Nat /\ v * Circulating <= p * Backing
  <2>1. v * Circulating \in Nat
    BY <1>2, <1>3
  <2>2. QED BY <1>2, <2>1, CeilBounds DEF BuyerPrincipal
<1> HIDE DEF p
<1>5. p \in Nat \ {0}
  BY <1>1, <1>4
<1>6. p <= Circulating
  BY <1>1, <1>2, <1>5 DEF Circulating, IInv, TypeOK, Pool
<1>8. /\ pool'.bootstrap = TRUE /\ pool'.inventory = pool.inventory \ {r}
      /\ pool'.nav = pool.nav - v /\ pool'.count = pool.count - 1
      /\ pool'.total = pool.total /\ pool'.reserve = pool.reserve + p
  BY <1>1 DEF IInv, TypeOK, Pool
<1>9. pool' \in Pool
  <2>1. /\ pool.nav - v \in Nat /\ pool.count - 1 \in Nat /\ pool.reserve + p \in Nat
        /\ pool.version + 1 \in Nat /\ pool.inventory \ {r} \in SUBSET InventoryRecord
    BY <1>1, <1>3, <1>5 DEF IInv, TypeOK, Pool, Backing
  <2>2. QED BY <1>1, <2>1 DEF IInv, TypeOK, Pool
<1>10. Circulating' = Circulating - p /\ Backing' = Backing - v
  BY <1>3, <1>5, <1>8 DEF Circulating, Backing, IInv, TypeOK, Pool
<1>11. QED BY <1>2, <1>3, <1>4, <1>5, <1>6, <1>8, <1>9, <1>10 DEF v

\* The invariant holds of the pool as launched.
LEMMA InvInit == Init => IInv
BY BoundAssumption
   DEF Init, IInv, TypeOK, Time, Pool, Untouched, Circulating

\* A swap keeps the invariant, and opens the pool.
LEMMA InvSwap ==
  ASSUME IInv, NEW e \in evidence,
         (\E d \in Deed : DeedToSols(d, e)) \/ (\E r \in pool.inventory : SolsToDeed(r, e))
  PROVE  IInv'
<1>1. pool' \in Pool /\ pool'.bootstrap
  <2>1. ASSUME NEW d \in Deed, DeedToSols(d, e)
        PROVE  pool' \in Pool /\ pool'.bootstrap
    BY <2>1, DepositEffect
  <2>2. ASSUME NEW r \in pool.inventory, SolsToDeed(r, e)
        PROVE  pool' \in Pool /\ pool'.bootstrap
    BY <2>2, PurchaseEffect
  <2>3. QED BY <2>1, <2>2
<1>2. UNCHANGED <<now, listings, paused, registry>> /\ evidence' = {}
  BY DEF DeedToSols, SolsToDeed
<1>3. TypeOK'
  BY <1>1, <1>2 DEF IInv, TypeOK
<1>4. QED BY <1>1, <1>3 DEF IInv, Untouched

\* Spends of the registry and new blocks keep the types and leave the pool alone.
LEMMA RestTypes ==
  ASSUME TypeOK, Governed \/ (\E c \in Collection : SolsEvidence(c))
                 \/ (\E t \in Time : NextBlock(t)) \/ UNCHANGED vars
  PROVE  TypeOK' /\ UNCHANGED pool
<1>1. UNCHANGED pool
  BY DEF Governed, UpdateCollection, UpdatePause, SolsEvidence, NextBlock, vars
<1>2. TypeOK'
  <2>1. ASSUME NEW c \in Collection, NEW l \in Listing, UpdateCollection(c, l) PROVE TypeOK'
    BY <2>1 DEF TypeOK, UpdateCollection
  <2>2. ASSUME NEW c \in Collection, NEW flag \in BOOLEAN, UpdatePause(c, flag) PROVE TypeOK'
    BY <2>2 DEF TypeOK, UpdatePause
  <2>3. ASSUME NEW c \in Collection, SolsEvidence(c) PROVE TypeOK'
    <3>1. [collection |-> c, listing |-> listings[c], paused |-> paused[c],
           registry |-> registry] \in Evidence
      BY <2>3 DEF TypeOK, SolsEvidence, Evidence
    <3>2. evidence' \subseteq Evidence
      BY <2>3, <3>1 DEF TypeOK, SolsEvidence
    <3>3. QED BY <2>3, <3>2 DEF TypeOK, SolsEvidence
  <2>4. ASSUME NEW t \in Time, NextBlock(t) PROVE TypeOK'
    BY <2>4 DEF TypeOK, NextBlock
  <2>5. CASE UNCHANGED vars
    BY <2>5 DEF TypeOK, vars
  <2>6. QED BY <2>1, <2>2, <2>3, <2>4, <2>5 DEF Governed
<1>3. QED BY <1>1, <1>2

LEMMA InvRest ==
  ASSUME IInv, Governed \/ (\E c \in Collection : SolsEvidence(c))
               \/ (\E t \in Time : NextBlock(t)) \/ UNCHANGED vars
  PROVE  IInv' /\ UNCHANGED pool
<1>1. TypeOK' /\ UNCHANGED pool
  BY RestTypes DEF IInv
<1>2. QED BY <1>1 DEF IInv, Untouched, Circulating

\* The invariant of the market, with the type invariant in it.
THEOREM Invariance == Spec => []IInv
<1>1. IInv /\ [Next]_vars => IInv'
  BY InvSwap, InvRest DEF Next, Swap
<1>2. QED BY InvInit, <1>1, PTL DEF Spec

\* The curried amounts stay natural numbers, the reserve and supply included.
THEOREM TypeCorrect == Spec => []TypeOK
<1>1. IInv => TypeOK
  BY DEF IInv
<1>2. QED BY <1>1, Invariance, PTL

\* No step lowers the backing of a circulating Sols.
THEOREM NavIsKept == Spec => NavNeverFalls
<1>1. IInv /\ [Next]_vars => [KeepsNav]_vars
  <2> SUFFICES ASSUME IInv, [Next]_vars, pool.bootstrap
      PROVE  Backing' * Circulating >= Backing * Circulating'
    BY DEF KeepsNav
  <2>1. ASSUME NEW e \in evidence, NEW d \in Deed, DeedToSols(d, e)
        PROVE  Backing' * Circulating >= Backing * Circulating'
    BY <2>1, DepositEffect, PayoutKeepsNav
  <2>2. ASSUME NEW e \in evidence, NEW r \in pool.inventory, SolsToDeed(r, e)
        PROVE  Backing' * Circulating >= Backing * Circulating'
    BY <2>2, PurchaseEffect, PrincipalKeepsNav
  <2>3. CASE UNCHANGED pool
    <3>1. Backing' * Circulating = Backing * Circulating' /\ Backing * Circulating' \in Int
      BY <2>3 DEF Backing, Circulating, IInv, TypeOK, Pool
    <3>2. QED BY <3>1
  <2>4. QED BY <2>1, <2>2, <2>3, InvRest DEF Next, Swap
<1>2. QED BY <1>1, Invariance, PTL DEF Spec, NavNeverFalls

\* Depositing a deed and buying it back at once never gains Sols.
THEOREM RoundTripNotFree == Spec => NoFreeRoundTrip
<1>1. IInv /\ [Next]_vars => [CostsRoundTrip]_vars
  <2> SUFFICES ASSUME IInv, [Next]_vars, NEW rec \in pool'.inventory \ pool.inventory
      PROVE  BuyerPrincipal(rec.value)' >= Circulating' - Circulating
    BY DEF CostsRoundTrip
  <2>1. ASSUME NEW e \in evidence, NEW d \in Deed, DeedToSols(d, e)
        PROVE  BuyerPrincipal(rec.value)' >= Circulating' - Circulating
    <3>1. PICK v \in Nat \ {0}, s \in Nat \ {0} :
            /\ rec.value = v
            /\ Backing' = Backing + v /\ Circulating' = Circulating + s
            /\ Backing \in Nat /\ Circulating \in Nat
            /\ pool.bootstrap => s * Backing <= v * Circulating
      BY <2>1, DepositEffect
    <3>2. s * Backing <= v * Circulating
      <4>1. CASE pool.bootstrap
        BY <3>1, <4>1
      <4>2. CASE ~pool.bootstrap
        <5>1. Backing = 0 /\ Circulating = 0
          BY <4>2 DEF IInv, Untouched, Backing
        <5>2. s * 0 = 0 /\ v * 0 = 0
          OBVIOUS
        <5>3. QED BY <5>1, <5>2
      <4>3. QED BY <4>1, <4>2
    <3> DEFINE p == CeilDiv(v * (Circulating + s), Backing + v)
    <3>3. BuyerPrincipal(rec.value)' = p
      BY <3>1 DEF BuyerPrincipal, CeilDiv
    <3>4. v * (Circulating + s) \in Nat /\ Backing + v \in Nat \ {0}
      BY <3>1
    <3>5. p \in Nat /\ v * (Circulating + s) <= p * (Backing + v)
      BY <3>4, CeilBounds
    <3> HIDE DEF p
    <3>6. s <= p
      BY <3>1, <3>2, <3>4, <3>5, BuyBackCovers
    <3>7. QED BY <3>1, <3>3, <3>5, <3>6
  <2>2. ASSUME NEW e \in evidence, NEW r \in pool.inventory, SolsToDeed(r, e)
        PROVE  FALSE
    BY <2>2, PurchaseEffect
  <2>3. QED BY <2>1, <2>2, InvRest DEF Next, Swap
<1>2. QED BY <1>1, Invariance, PTL DEF Spec, NoFreeRoundTrip
----------------------------------------------------------------------------
(***************************************************************************)
(* The inventory.  The totals are those of the records as long as a deed   *)
(* has one record at most, and a record is added or removed once.          *)
(***************************************************************************)
OneRecordEach == \A r, s \in pool.inventory : r.deed = s.deed => r = s

\* What PoolOpenable needs from one spend to the next, besides itself.
Recorded == OneRecordEach /\ IsFiniteSet(pool.inventory)

OpenInv == IInv /\ Recorded /\ PoolOpenable

RecordValue == [r \in InventoryRecord |-> r.value]

\* A NAV is a sum over records.
LEMMA NavIsTotal ==
  ASSUME NEW S \in SUBSET InventoryRecord
  PROVE  /\ NavOf(S) = Total(RecordValue, S)
         /\ \A r \in S : RecordValue[r] \in Nat /\ RecordValue[r] = r.value
<1>1. \A r \in S : RecordValue[r] = r.value /\ r.value \in Nat
  BY DEF RecordValue, InventoryRecord
<1>2. [r \in S |-> r.value] = [r \in S |-> RecordValue[r]]
  BY <1>1
<1>3. QED BY <1>1, <1>2 DEF NavOf, Total

\* There are as many deeds as records when no two records are of one deed.
LEMMA DeedsOfRecords ==
  ASSUME NEW S, IsFiniteSet(S), \A r, s \in S : r.deed = s.deed => r = s
  PROVE  Cardinality({r.deed : r \in S}) = Cardinality(S)
<1> DEFINE D == {r.deed : r \in S}
           g == [r \in S |-> r.deed]
<1>1. g \in Bijection(S, D)
  BY DEF Bijection, Injection, Surjection, IsInjective
<1> HIDE DEF D, g
<1>2. Cardinality(S) = Cardinality(D)
  <2>1. ExistsBijection(S, D)
    BY <1>1 DEF ExistsBijection
  <2>2. QED BY <2>1, FS_Bijection
<1>3. QED BY <1>2 DEF D

LEMMA OpenDeposit ==
  ASSUME OpenInv, NEW d \in Deed, NEW e \in evidence, DeedToSols(d, e)
  PROVE  Recorded' /\ PoolOpenable'
<1> USE DEF OpenInv, Recorded
<1>1. PICK rec \in InventoryRecord, s \in Nat \ {0}, paid \in Nat :
           /\ rec.deed = d /\ d \notin Held
           /\ paid < pool.reserve /\ paid <= s
           /\ pool' \in Pool
           /\ pool'.inventory = pool.inventory \cup {rec}
           /\ pool'.nav = pool.nav + rec.value /\ pool'.count = pool.count + 1
           /\ pool'.total = pool.total + s - paid /\ pool'.total <= MaxSols
           /\ pool'.reserve = pool.reserve - paid
  BY DepositRecord
<1> DEFINE S == pool.inventory
           T == S \cup {rec}
<1>2. S \in SUBSET InventoryRecord /\ T \in SUBSET InventoryRecord /\ IsFiniteSet(S)
  BY DEF IInv, TypeOK, Pool
<1>3. \A r \in S : r.deed # d
  BY <1>1 DEF Held
<1>4. rec \notin S /\ \A r, q \in T : r.deed = q.deed => r = q
  BY <1>1, <1>3 DEF OneRecordEach
<1>5. IsFiniteSet(T) /\ Cardinality(T) = Cardinality(S) + 1
  BY <1>2, <1>4, FS_AddElement
<1>6. NavOf(T) = NavOf(S) + rec.value
  <2>1. \A r \in S \cup {rec} : RecordValue[r] \in Nat /\ RecordValue[r] = r.value
    BY <1>2, NavIsTotal
  <2>2. Total(RecordValue, S \cup {rec}) = Total(RecordValue, S) + RecordValue[rec]
    BY <1>2, <1>4, <2>1, TotalAdd
  <2>3. QED BY <1>2, <2>1, <2>2, NavIsTotal
<1>7. Cardinality({r.deed : r \in T}) = Cardinality(T)
  BY <1>4, <1>5, DeedsOfRecords
<1>8. /\ pool.nav = NavOf(S) /\ pool.count = Cardinality(S)
      /\ pool.reserve \in Nat /\ pool.total \in Nat /\ pool.reserve <= pool.total
  BY DEF PoolOpenable, IInv, TypeOK, Pool
<1> HIDE DEF S, T
<1>9. pool'.inventory = T
  BY <1>1 DEF S, T
<1>10. /\ pool'.nav = NavOf(T) /\ pool'.count = Cardinality(T)
       /\ 1 <= pool'.reserve /\ pool'.reserve <= pool'.total /\ pool'.total <= MaxSols
  BY <1>1, <1>5, <1>6, <1>8
<1>11. PoolOpenable'
  BY <1>7, <1>9, <1>10 DEF PoolOpenable, Held
<1>12. QED BY <1>4, <1>5, <1>9, <1>11 DEF OneRecordEach

LEMMA OpenPurchase ==
  ASSUME OpenInv, NEW r \in pool.inventory, NEW e \in evidence, SolsToDeed(r, e)
  PROVE  Recorded' /\ PoolOpenable'
<1> USE DEF OpenInv, Recorded
<1>1. PICK v \in Nat \ {0}, p \in Nat \ {0} :
           /\ v = r.value /\ pool'.inventory = pool.inventory \ {r}
           /\ pool'.nav = pool.nav - v /\ pool'.count = pool.count - 1
           /\ pool'.total = pool.total /\ pool'.reserve = pool.reserve + p
           /\ p <= Circulating
  BY PurchaseEffect
<1> DEFINE S == pool.inventory
           T == S \ {r}
<1>2. S \in SUBSET InventoryRecord /\ T \in SUBSET InventoryRecord /\ IsFiniteSet(S)
  BY DEF IInv, TypeOK, Pool
<1>3. IsFiniteSet(T) /\ Cardinality(T) = Cardinality(S) - 1
  BY <1>2, FS_RemoveElement
<1>4. NavOf(S) = NavOf(T) + v /\ NavOf(T) \in Nat
  <2>1. /\ Total(RecordValue, S) = Total(RecordValue, T) + RecordValue[r]
        /\ Total(RecordValue, T) \in Nat
    BY <1>2, NavIsTotal, TotalRemove
  <2>2. QED BY <1>1, <1>2, <2>1, NavIsTotal
<1>5. \A q, t \in T : q.deed = t.deed => q = t
  BY DEF OneRecordEach
<1>6. Cardinality({q.deed : q \in T}) = Cardinality(T)
  BY <1>3, <1>5, DeedsOfRecords
<1>7. /\ pool.nav = NavOf(S) /\ pool.count = Cardinality(S)
      /\ pool.reserve \in Nat /\ pool.total \in Nat /\ 1 <= pool.reserve
      /\ pool.total <= MaxSols /\ p <= pool.total - pool.reserve
  BY <1>1 DEF PoolOpenable, IInv, TypeOK, Pool, Circulating
<1> HIDE DEF S, T
<1>8. pool'.inventory = T
  BY <1>1 DEF S, T
<1>9. /\ pool'.nav = NavOf(T) /\ pool'.count = Cardinality(T)
      /\ 1 <= pool'.reserve /\ pool'.reserve <= pool'.total /\ pool'.total <= MaxSols
  BY <1>1, <1>3, <1>4, <1>7, BoundAssumption
<1>10. PoolOpenable'
  BY <1>6, <1>8, <1>9 DEF PoolOpenable, Held
<1>11. QED BY <1>3, <1>5, <1>8, <1>10 DEF OneRecordEach

LEMMA OpenInit == Init => OpenInv
<1> SUFFICES ASSUME Init PROVE OpenInv
  OBVIOUS
<1>1. pool.inventory = {} /\ pool.nav = 0 /\ pool.count = 0 /\ pool.total = 1 /\ pool.reserve = 1
  BY DEF Init
<1>2. IsFiniteSet({}) /\ Cardinality({}) = 0
  BY FS_EmptySet
<1>3. NavOf({}) = 0
  BY NavIsTotal, TotalEmpty
<1>4. Held = {}
  BY <1>1 DEF Held
<1>5. PoolOpenable
  BY <1>1, <1>2, <1>3, <1>4, BoundAssumption DEF PoolOpenable
<1>6. QED BY <1>1, <1>2, <1>5, InvInit DEF OpenInv, Recorded, OneRecordEach

LEMMA OpenStep == OpenInv /\ [Next]_vars => OpenInv'
<1> SUFFICES ASSUME OpenInv, [Next]_vars PROVE OpenInv'
  OBVIOUS
<1>1. IInv'
  BY InvSwap, InvRest DEF OpenInv, Next, Swap
<1>2. CASE Swap
  BY <1>1, <1>2, OpenDeposit, OpenPurchase DEF OpenInv, Swap
<1>3. CASE UNCHANGED pool
  BY <1>1, <1>3 DEF OpenInv, Recorded, OneRecordEach, PoolOpenable, Held
<1>4. QED BY <1>2, <1>3, InvRest DEF OpenInv, Next

\* Whatever swaps are made, the state they leave has the totals of its inventory, one
\* record to a deed, and a reserve that keeps its anchor within the supply.
THEOREM PoolStaysOpenable == Spec => []PoolOpenable
<1>1. OpenInv => PoolOpenable
  BY DEF OpenInv
<1>2. QED BY <1>1, OpenInit, OpenStep, PTL DEF Spec

----------------------------------------------------------------------------
(* Quotes and custody.                                                     *)

\* What a quote says of a deed is true of the pool coin it names, and only of it.
Moves(q) ==
  \/ /\ q.kind = "deposit"
     /\ \E r \in InventoryRecord :
          r.deed = q.deed /\ q.next.inventory = pool.inventory \cup {r}
  \/ /\ q.kind = "purchase"
     /\ \E r \in pool.inventory :
          r.deed = q.deed /\ q.next.inventory = pool.inventory \ {r}

QuoteSound(q) ==
  /\ q.deed \in Deed /\ q.vault \in Vault
  /\ q.pool \in Nat /\ q.pool <= pool.version
  /\ q.next \in Pool /\ q.next.version = q.pool + 1
  /\ q.pool = pool.version => Moves(q)

QuotesSound == \A q \in quotes : QuoteSound(q)

PlaceOK == place \in [Deed -> Vault \cup {Custody}]

\* What others do with Sols.
Stray ==
  \/ \E amount \in Taken : (\E coin \in purse : SpendPurse(coin, amount)) \/ RemoveUngated(amount)
  \/ \E a \in Added : AddUngated(a.to, a.amount)

\* The inventory can lag the custody only through a quote of another pool coin,
\* so what the quotes say is part of the invariant.
HeldInv == TypeOK /\ PlaceOK /\ OneRecordEach /\ QuotesSound /\ InventoryIsHeld

----------------------------------------------------------------------------
\* A quote rests on a listing the registry holds.
LEMMA TermsListed ==
  ASSUME TypeOK, NEW c \in Collection, NEW S, NEW until, TermsAllow(Terms(c), S, until)
  PROVE  Terms(c).listing \in Listing /\ Terms(c).listing = listings[c]
BY DEF TypeOK, TermsAllow, Terms

\* A dynamic price is a number of Sols, rounded either way.
LEMMA DynamicNat ==
  ASSUME TypeOK, Priced, NEW v \in Nat, NEW up \in BOOLEAN
  PROVE  DynamicSols(v, up) \in Nat
<1>1. Circulating \in Nat /\ Backing \in Nat \ {0}
  BY DEF TypeOK, Pool, Priced, Circulating, Backing
<1>2. v * Circulating \in Nat
  BY <1>1
<1>3. QED BY <1>1, <1>2, FloorBounds, CeilBounds DEF DynamicSols

\* The state a deposit is quoted to lead to.
LEMMA DepositQuotePool ==
  ASSUME TypeOK, NEW v \in Nat, pool.bootstrap => Priced
  PROVE  /\ DepositQuote(v).next \in Pool
         /\ DepositQuote(v).next.inventory = pool.inventory
         /\ DepositQuote(v).next.version = pool.version
<1> DEFINE s == DepositQuote(v).seller
<1>1. s \in Nat
  <2>1. CASE pool.bootstrap
    BY <2>1, DynamicNat DEF DepositQuote
  <2>2. CASE ~pool.bootstrap
    <3>1. v * SolsUnit \in Nat /\ BootstrapValue \in Nat \ {0}
      BY MarketAssumption
    <3>2. QED BY <2>2, <3>1, FloorBounds DEF DepositQuote
  <2>3. QED BY <2>1, <2>2
<1> DEFINE paid == ReserveSolsPaid(s)
           next == [pool EXCEPT !.bootstrap = TRUE, !.nav = @ + v, !.count = @ + 1,
                                !.total = @ + (s - paid), !.reserve = @ - paid]
<1>2. DepositQuote(v).next = next
  BY DEF DepositQuote
<1> HIDE DEF s
<1>3. paid \in Int /\ s - paid \in Nat /\ pool.reserve - paid \in Nat
  BY <1>1 DEF ReserveSolsPaid, Lesser, TypeOK, Pool
<1> HIDE DEF paid
<1>4. next \in Pool /\ next.inventory = pool.inventory /\ next.version = pool.version
  <2>1. /\ pool.nav + v \in Nat /\ pool.count + 1 \in Nat
        /\ pool.total + (s - paid) \in Nat
    BY <1>1, <1>3 DEF TypeOK, Pool
  <2>2. pool \in Pool
    BY DEF TypeOK
  <2>3. next = [pool EXCEPT !.bootstrap = TRUE, !.nav = pool.nav + v,
                            !.count = pool.count + 1, !.total = pool.total + (s - paid),
                            !.reserve = pool.reserve - paid]
    OBVIOUS
  <2>. HIDE DEF next
  <2>4. QED BY <1>3, <2>1, <2>2, <2>3 DEF Pool
<1>5. QED BY <1>2, <1>4

\* The state a purchase is quoted to lead to.
LEMMA PurchaseQuotePool ==
  ASSUME TypeOK, Priced, NEW v \in Nat, v <= pool.nav, pool.count > 0
  PROVE  /\ PurchaseQuote(v).next \in Pool
         /\ PurchaseQuote(v).next.inventory = pool.inventory
         /\ PurchaseQuote(v).next.version = pool.version
<1> DEFINE p == DynamicSols(v, TRUE)
           next == [pool EXCEPT !.bootstrap = TRUE, !.nav = @ - v, !.count = @ - 1,
                                !.reserve = @ + p]
<1>1. p \in Nat
  BY DynamicNat
<1>2. PurchaseQuote(v).next = next
  BY DEF PurchaseQuote
<1> HIDE DEF p
<1>3. next \in Pool /\ next.inventory = pool.inventory /\ next.version = pool.version
  <2>1. pool \in Pool /\ pool.nav - v \in Nat /\ pool.count - 1 \in Nat
        /\ pool.total \in Nat /\ pool.reserve + p \in Nat
    BY <1>1 DEF TypeOK, Pool
  <2>2. next = [pool EXCEPT !.bootstrap = TRUE, !.nav = pool.nav - v,
                            !.count = pool.count - 1, !.total = pool.total,
                            !.reserve = pool.reserve + p]
    BY <2>1 DEF Pool
  <2>. HIDE DEF next
  <2>3. QED BY <2>1, <2>2 DEF Pool
<1>4. QED BY <1>2, <1>3

\* A deposit is quoted as what it does to the pool of its moment.
LEMMA DepositIsSound ==
  ASSUME HeldInv, NEW v \in Vault, NEW d \in Deed, NEW to, NEW until,
         PrepareDeedToSols(v, d, to, until), NEW q \in quotes' \ quotes
  PROVE  QuoteSound(q)
<1> DEFINE terms == Terms(CollectionOf[d])
           value == GovernedValue(terms.listing, d)
           quote == DepositQuote(value)
           record == [deed |-> d, value |-> value, version |-> terms.listing.version,
                      until |-> terms.listing.until]
           next == [quote.next EXCEPT !.inventory = @ \cup {record}, !.version = @ + 1]
<1> USE DEF HeldInv
<1>1. terms.listing \in Listing
  <2>1. CollectionOf[d] \in Collection
    BY DeedAssumption
  <2>2. TermsAllow(terms, {1}, until)
    BY DEF PrepareDeedToSols
  <2>3. QED BY <2>1, <2>2, TermsListed
<1>2. value \in Nat \ {0}
  BY <1>1, ValuePositive
<1>3. record \in InventoryRecord /\ record.deed = d
  BY <1>1, <1>2, ListingAssumption DEF InventoryRecord
<1>4. pool.bootstrap => Priced
  BY DEF PrepareDeedToSols
<1>5. /\ quote.next \in Pool /\ quote.next.inventory = pool.inventory
      /\ quote.next.version = pool.version
  BY <1>2, <1>4, DepositQuotePool
<1>6. /\ q.kind = "deposit" /\ q.deed = d /\ q.vault = v /\ q.pool = pool.version
      /\ q.next = next
  <2>1. q = [kind |-> "deposit", deed |-> d, terms |-> terms, pool |-> pool.version,
             vault |-> v, coin |-> vaultCoin[v], until |-> until,
             sols |-> quote.seller, to |-> to, next |-> next]
    BY Zenon DEF PrepareDeedToSols, Issue
  <2>2. QED BY <2>1
<1> HIDE DEF quote, record
<1>7. /\ next \in Pool /\ next.version = pool.version + 1
      /\ next.inventory = pool.inventory \cup {record}
  <2>1. /\ pool.inventory \cup {record} \in SUBSET InventoryRecord
        /\ pool.version + 1 \in Nat
    BY <1>3 DEF TypeOK, Pool
  <2>2. next = [quote.next EXCEPT !.inventory = pool.inventory \cup {record},
                                  !.version = pool.version + 1]
    BY <1>5
  <2>. HIDE DEF next
  <2>3. QED BY <1>5, <2>1, <2>2 DEF Pool
<1> HIDE DEF next
<1>8. pool.version \in Nat
  BY DEF TypeOK, Pool
<1>9. QED BY <1>3, <1>6, <1>7, <1>8 DEF QuoteSound, Moves

\* A purchase is quoted as what it does to the pool of its moment.
LEMMA PurchaseIsSound ==
  ASSUME HeldInv, NEW v \in Vault, NEW r \in pool.inventory, NEW coin, NEW until,
         PrepareSolsToDeed(v, r, coin, until), NEW q \in quotes' \ quotes
  PROVE  QuoteSound(q)
<1> DEFINE quote == PurchaseQuote(r.value)
           next == [quote.next EXCEPT !.inventory = @ \ {r}, !.version = @ + 1]
<1> USE DEF HeldInv
<1>1. r \in InventoryRecord /\ r.value \in Nat /\ r.deed \in Deed
  BY DEF TypeOK, Pool, InventoryRecord
<1>2. Priced /\ r.value <= pool.nav /\ pool.count > 0
  BY DEF PrepareSolsToDeed
<1>3. /\ quote.next \in Pool /\ quote.next.inventory = pool.inventory
      /\ quote.next.version = pool.version
  BY <1>1, <1>2, PurchaseQuotePool
<1>4. /\ q.kind = "purchase" /\ q.deed = r.deed /\ q.vault = v /\ q.pool = pool.version
      /\ q.next = next
  <2>1. q = [kind |-> "purchase", deed |-> r.deed, terms |-> Terms(CollectionOf[r.deed]),
             pool |-> pool.version, vault |-> v, coin |-> vaultCoin[v], until |-> until,
             principal |-> quote.principal, fee |-> quote.fee, payment |-> coin,
             next |-> next]
    BY Zenon DEF PrepareSolsToDeed, Issue
  <2>2. QED BY <2>1
<1> HIDE DEF quote
<1>5. /\ next \in Pool /\ next.version = pool.version + 1
      /\ next.inventory = pool.inventory \ {r}
  <2>1. pool.inventory \ {r} \in SUBSET InventoryRecord /\ pool.version + 1 \in Nat
    BY DEF TypeOK, Pool
  <2>2. next = [quote.next EXCEPT !.inventory = pool.inventory \ {r},
                                  !.version = pool.version + 1]
    BY <1>3
  <2>. HIDE DEF next
  <2>3. QED BY <1>3, <2>1, <2>2 DEF Pool
<1> HIDE DEF next
<1>6. pool.version \in Nat
  BY DEF TypeOK, Pool
<1>7. QED BY <1>1, <1>4, <1>5, <1>6 DEF QuoteSound, Moves

\* A quote stays sound while its pool coin is the present one.
LEMMA QuotesKept ==
  ASSUME HeldInv, UNCHANGED pool, quotes' \subseteq quotes
  PROVE  QuotesSound' /\ OneRecordEach'
BY DEF HeldInv, QuotesSound, QuoteSound, Moves, OneRecordEach

LEMMA HeldInit == SwapInit => HeldInv
<1> SUFFICES ASSUME SwapInit PROVE HeldInv
  OBVIOUS
<1>1. TypeOK
  BY InvInit DEF SwapInit, IInv
<1>2. pool.inventory = {} /\ quotes = {} /\ place = FirstVault
  BY DEF SwapInit, Init
<1>3. PlaceOK /\ InventoryIsHeld
  BY <1>2, SwapAssumption DEF PlaceOK, InventoryIsHeld, Held
<1>4. QED BY <1>1, <1>2, <1>3 DEF HeldInv, OneRecordEach, QuotesSound

\* A settled deposit puts into custody the deed it adds to the inventory.
LEMMA HeldDeposit ==
  ASSUME HeldInv, NEW q \in quotes, NEW coin, SettleDeedToSols(q, coin)
  PROVE  HeldInv'
<1> USE DEF HeldInv
<1>1. /\ pool' = q.next /\ q.pool = pool.version /\ quotes' = quotes \ {q}
      /\ evidence' = {} /\ UNCHANGED <<now, listings, paused, registry>>
      /\ place[q.deed] = q.vault /\ place' = [place EXCEPT ![q.deed] = Custody]
  BY DEF SettleDeedToSols, Settle, Current, DepositDeed
<1>2. QuoteSound(q) /\ q.kind # "purchase"
  BY DEF QuotesSound, SettleDeedToSols
<1>3. PICK r \in InventoryRecord :
        r.deed = q.deed /\ q.next.inventory = pool.inventory \cup {r}
  BY <1>1, <1>2 DEF QuoteSound, Moves
<1>4. q.deed \notin Held
  BY <1>1, <1>2, SwapAssumption DEF InventoryIsHeld, QuoteSound
<1>5. TypeOK' /\ PlaceOK'
  BY <1>1, <1>2 DEF TypeOK, PlaceOK, QuoteSound
<1>6. OneRecordEach'
  BY <1>1, <1>3, <1>4 DEF OneRecordEach, Held
<1>7. QuotesSound'
  BY <1>1, <1>2 DEF QuotesSound, QuoteSound, TypeOK, Pool
<1>8. InventoryIsHeld'
  <2>1. Held' = Held \cup {q.deed}
    BY <1>1, <1>3 DEF Held
  <2>2. {d \in Deed : place'[d] = Custody} = {d \in Deed : place[d] = Custody} \cup {q.deed}
    BY <1>1, <1>2 DEF PlaceOK, QuoteSound
  <2>3. QED BY <2>1, <2>2 DEF InventoryIsHeld
<1>9. QED BY <1>5, <1>6, <1>7, <1>8

\* A settled purchase takes out of custody the deed whose record it removes.
LEMMA HeldPurchase ==
  ASSUME HeldInv, NEW q \in quotes, SettleSolsToDeed(q)
  PROVE  HeldInv'
<1> USE DEF HeldInv
<1>1. /\ pool' = q.next /\ q.pool = pool.version /\ quotes' = quotes \ {q}
      /\ evidence' = {} /\ UNCHANGED <<now, listings, paused, registry>>
      /\ place' = [place EXCEPT ![q.deed] = q.vault]
  BY DEF SettleSolsToDeed, Settle, Current, ReleaseDeed
<1>2. QuoteSound(q) /\ q.kind # "deposit"
  BY DEF QuotesSound, SettleSolsToDeed
<1>3. PICK r \in pool.inventory :
        r.deed = q.deed /\ q.next.inventory = pool.inventory \ {r}
  BY <1>1, <1>2 DEF QuoteSound, Moves
<1>4. q.vault # Custody
  BY <1>2, SwapAssumption DEF QuoteSound
<1>5. TypeOK' /\ PlaceOK'
  BY <1>1, <1>2 DEF TypeOK, PlaceOK, QuoteSound
<1>6. OneRecordEach'
  BY <1>1, <1>3 DEF OneRecordEach
<1>7. QuotesSound'
  BY <1>1, <1>2 DEF QuotesSound, QuoteSound, TypeOK, Pool
<1>8. InventoryIsHeld'
  <2>1. Held' = Held \ {q.deed}
    BY <1>1, <1>3 DEF Held, OneRecordEach
  <2>2. {d \in Deed : place'[d] = Custody} = {d \in Deed : place[d] = Custody} \ {q.deed}
    BY <1>1, <1>2, <1>4 DEF PlaceOK, QuoteSound
  <2>3. QED BY <2>1, <2>2 DEF InventoryIsHeld
<1>9. QED BY <1>5, <1>6, <1>7, <1>8

\* The other steps touch neither the pool nor its custody; a vault's own spends
\* lead from vault to vault.
LEMMA HeldStep ==
  ASSUME HeldInv, [SwapNext]_allVars
  PROVE  HeldInv'
<1> USE DEF HeldInv
<1>1. CASE Market
  <2>1. TypeOK' /\ UNCHANGED pool
    BY <1>1, RestTypes DEF Market
  <2>2. UNCHANGED <<place, quotes>>
    BY <1>1 DEF Market
  <2>3. QED BY <2>1, <2>2, QuotesKept DEF PlaceOK, InventoryIsHeld, Held
<1>2. CASE Prepare
  <2>1. UNCHANGED vars /\ UNCHANGED place
    <3>1. ASSUME NEW q, Issue(q) PROVE UNCHANGED vars /\ UNCHANGED place
      BY <3>1 DEF Issue
    <3>2. ASSUME NEW v, NEW d, NEW to, NEW until, PrepareDeedToSols(v, d, to, until)
          PROVE  \E q : Issue(q)
      BY <3>2 DEF PrepareDeedToSols
    <3>3. ASSUME NEW v, NEW r, NEW coin, NEW until, PrepareSolsToDeed(v, r, coin, until)
          PROVE  \E q : Issue(q)
      BY <3>3 DEF PrepareSolsToDeed
    <3>4. QED BY <1>2, <3>1, <3>2, <3>3 DEF Prepare
  <2>2. \A q \in quotes' \ quotes : QuoteSound(q)
    BY <1>2, DepositIsSound, PurchaseIsSound DEF Prepare
  <2>3. QuotesSound'
    BY <2>1, <2>2 DEF QuotesSound, QuoteSound, Moves, vars
  <2>4. QED BY <2>1, <2>3
            DEF TypeOK, PlaceOK, OneRecordEach, InventoryIsHeld, Held, vars
<1>3. ASSUME NEW q \in quotes, NEW coin \in reserve, SettleDeedToSols(q, coin)
      PROVE  HeldInv'
  BY <1>3, HeldDeposit
<1>4. ASSUME NEW q \in quotes, SettleSolsToDeed(q)
      PROVE  HeldInv'
  BY <1>4, HeldPurchase
<1>5. ASSUME NEW q \in quotes, GiveUp(q)
      PROVE  HeldInv'
  <2>1. UNCHANGED <<vars, place>> /\ quotes' \subseteq quotes
    BY <1>5 DEF GiveUp
  <2>2. QED BY <2>1, QuotesKept DEF TypeOK, PlaceOK, InventoryIsHeld, Held, vars
<1>6. CASE Consolidate \/ Stray \/ UNCHANGED allVars
  <2>1. UNCHANGED <<vars, place, quotes>>
    BY <1>6 DEF Consolidate, Stray, SpendPurse, AddUngated, RemoveUngated, allVars, swapVars
  <2>2. QED BY <2>1, QuotesKept DEF TypeOK, PlaceOK, InventoryIsHeld, Held, vars
<1>7. ASSUME NEW v \in Vault, NEW w \in Vault, NEW deeds \in SUBSET Deed,
             SpendVault(v, deeds, w)
      PROVE  HeldInv'
  <2>1. /\ UNCHANGED <<vars, quotes>>
        /\ place' = [d \in Deed |-> IF d \in deeds THEN w ELSE place[d]]
        /\ \A d \in deeds : place[d] = v
    BY <1>7 DEF SpendVault
  <2>2. PlaceOK' /\ \A d \in Deed : place'[d] = Custody <=> place[d] = Custody
    BY <2>1, SwapAssumption DEF PlaceOK
  <2>3. InventoryIsHeld'
    BY <2>1, <2>2 DEF InventoryIsHeld, Held, vars
  <2>4. QED BY <2>1, <2>2, <2>3, QuotesKept DEF TypeOK, vars
<1>8. QED BY <1>1, <1>2, <1>3, <1>4, <1>5, <1>6, <1>7 DEF SwapNext, Stray

THEOREM HeldInvariance == SwapSpec => []HeldInv
<1>1. HeldInv /\ [SwapNext]_allVars => HeldInv'
  BY HeldStep
<1>2. QED BY HeldInit, <1>1, PTL DEF SwapSpec

\* The deeds the pool's inventory commits to are the deeds in its custody, however
\* many quotes race for the pool coin and wherever the vaults take their deeds.
THEOREM CustodyIsInventory == SwapSpec => []InventoryIsHeld
<1>1. HeldInv => InventoryIsHeld
  BY DEF HeldInv
<1>2. QED BY <1>1, HeldInvariance, PTL

----------------------------------------------------------------------------
(***************************************************************************)
(* The market accepts what Python prepares.  The market's spends check the *)
(* sums of their witnesses (PoolOpenable).                                 *)
(***************************************************************************)
\* The registry allowed the swap when it was quoted.
TermsFit(q) ==
  /\ q.terms.listing \in Listing /\ ~q.terms.paused
  /\ q.terms.listing.until - q.terms.listing.after <= NavValidity
  /\ q.until \in Nat /\ q.until <= q.terms.listing.until
  /\ q.terms.collection = CollectionOf[q.deed]

\* A quoted deposit is the deposit the pool's puzzle computes.
DepositFits(q) ==
  LET l == q.terms.listing
      v == GovernedValue(l, q.deed)
      s == SellerSols(v)
      paid == ReservePaid(s)
  IN /\ q.kind = "deposit" /\ l.status = 1 /\ q.deed \in Deed
     /\ q.deed \notin Held
     /\ CollectionHeldValue(q.terms.collection) + v <= l.ceiling
     /\ pool.bootstrap => Backing # 0
     /\ s > 0 /\ q.sols = s
     /\ q.next = [pool EXCEPT
          !.bootstrap = TRUE,
          !.inventory = @ \cup {[deed |-> q.deed, value |-> v, version |-> l.version,
                                 until |-> l.until]},
          !.nav = @ + v, !.count = @ + 1, !.total = @ + s - paid, !.reserve = @ - paid,
          !.version = @ + 1]

\* A quoted purchase is the purchase the pool's puzzle computes, and its payment
\* covers principal and fees.
PurchaseFits(q) ==
  \E r \in pool.inventory :
    LET l == q.terms.listing
        p == BuyerPrincipal(r.value)
    IN /\ q.kind = "purchase" /\ l.status \in {1, 3} /\ r.deed = q.deed
       /\ r.value = GovernedValue(l, r.deed) /\ r.version = l.version /\ r.until = l.until
       /\ pool.count > 0 /\ Backing > 0 /\ Circulating > 0
       /\ p > 0 /\ p <= Circulating /\ pool.nav >= r.value
       /\ q.principal = p /\ q.fee = Fee(p)
       /\ q.next = [pool EXCEPT
            !.bootstrap = TRUE,
            !.inventory = @ \ {r}, !.nav = @ - r.value, !.count = @ - 1,
            !.reserve = @ + p, !.version = @ + 1]

\* A coin of a vault.
Shaped(c) == c = [name |-> c.name, amount |-> c.amount, vault |-> c.vault] /\ c.amount \in Nat

PurseOK == \A c \in purse : Shaped(c)

SumsFit(q) ==
  /\ q.kind = "deposit" => q.sols \in Nat
  /\ q.kind = "purchase" =>
       /\ Shaped(q.payment) /\ q.principal \in Nat /\ q.fee \in Nat
       /\ q.principal + q.fee <= q.payment.amount

Fits(q) == TermsFit(q) /\ SumsFit(q) /\ (q.pool = pool.version => DepositFits(q) \/ PurchaseFits(q))

QuotesFit == \A q \in quotes : Fits(q)

FitInv == HeldInv /\ PurseOK /\ QuotesFit

\* A quote fits as long as its pool coin is the present one.
LEMMA FitsKept ==
  ASSUME UNCHANGED pool, NEW q, Fits(q)
  PROVE  Fits(q)'
<1>1. TermsFit(q)' /\ SumsFit(q)'
  BY DEF Fits, TermsFit, SumsFit, Shaped
<1>2. DepositFits(q) => DepositFits(q)'
  BY DEF DepositFits, SellerSols, ReservePaid, Held, CollectionHeldValue, Backing, Circulating
<1>3. PurchaseFits(q) => PurchaseFits(q)'
  BY DEF PurchaseFits, BuyerPrincipal, Backing, Circulating
<1>4. QED BY <1>1, <1>2, <1>3 DEF Fits

\* What Python quotes for a deposit is what the puzzle computes.
LEMMA DepositPrepared ==
  ASSUME FitInv, NEW v \in Vault, NEW d \in Deed, NEW to, NEW until \in Expiry,
         PrepareDeedToSols(v, d, to, until), NEW q \in quotes' \ quotes
  PROVE  Fits(q)
<1> DEFINE terms == Terms(CollectionOf[d])
           value == GovernedValue(terms.listing, d)
           quote == DepositQuote(value)
           record == [deed |-> d, value |-> value, version |-> terms.listing.version,
                      until |-> terms.listing.until]
           next == [quote.next EXCEPT !.inventory = @ \cup {record}, !.version = @ + 1]
           s == SellerSols(value)
           paid == ReservePaid(s)
<1> USE DEF FitInv, HeldInv
<1>1. TermsAllow(terms, {1}, until)
  BY DEF PrepareDeedToSols
<1>2. terms.listing \in Listing
  <2>1. CollectionOf[d] \in Collection
    BY DeedAssumption
  <2>2. QED BY <2>1, <1>1, TermsListed
<1>3. value \in Nat \ {0}
  BY <1>2, ValuePositive
<1>4. /\ pool.bootstrap => Priced
      /\ d \notin Held /\ quote.seller > 0
      /\ CollectionHeldValue(CollectionOf[d]) + value <= terms.listing.ceiling
  BY DEF PrepareDeedToSols
<1>5. q = [kind |-> "deposit", deed |-> d, terms |-> terms, pool |-> pool.version,
           vault |-> v, coin |-> vaultCoin[v], until |-> until,
           sols |-> quote.seller, to |-> to, next |-> next]
  BY Zenon DEF PrepareDeedToSols, Issue
<1>6. /\ q.kind = "deposit" /\ q.deed = d /\ q.terms = terms /\ q.until = until
      /\ q.sols = quote.seller /\ q.next = next
  BY <1>5
<1>7. quote.seller = s
  BY DEF DepositQuote, DynamicSols, SellerSols
<1>8. s \in Nat
  <2>1. CASE pool.bootstrap
    <3>1. DynamicSols(value, FALSE) \in Nat
      BY <1>3, <1>4, <2>1, DynamicNat
    <3>2. s = DynamicSols(value, FALSE)
      BY <2>1 DEF SellerSols, DynamicSols
    <3>3. QED BY <3>1, <3>2
  <2>2. CASE ~pool.bootstrap
    <3>1. value * SolsUnit \in Nat /\ BootstrapValue \in Nat \ {0}
      BY <1>3, MarketAssumption
    <3>2. QED BY <2>2, <3>1, FloorBounds DEF SellerSols
  <2>3. QED BY <2>1, <2>2
<1>9. quote.next = [pool EXCEPT !.bootstrap = TRUE, !.nav = @ + value, !.count = @ + 1,
                                !.total = @ + (s - paid), !.reserve = @ - paid]
  BY <1>7 DEF DepositQuote, ReserveSolsPaid, ReservePaid
<1> HIDE DEF quote, record, s
<1>10. paid \in Int
  BY <1>8 DEF ReservePaid, Lesser, TypeOK, Pool
<1> HIDE DEF paid
<1>11. next = [pool EXCEPT
          !.bootstrap = TRUE, !.inventory = @ \cup {record},
          !.nav = @ + value, !.count = @ + 1, !.total = @ + s - paid, !.reserve = @ - paid,
          !.version = @ + 1]
  BY <1>8, <1>9, <1>10 DEF TypeOK, Pool
<1>12. TermsFit(q)
  <2>1. until \in Nat
    BY SwapAssumption
  <2>2. terms.collection = CollectionOf[d]
    BY DEF Terms
  <2>3. QED BY <1>1, <1>2, <1>6, <2>1, <2>2 DEF TermsFit, TermsAllow
<1>13. SumsFit(q)
  BY <1>6, <1>7, <1>8 DEF SumsFit
<1>14. DepositFits(q)
  <2>1. terms.listing.status = 1
    BY <1>1 DEF TermsAllow
  <2>2. terms.collection = CollectionOf[d]
    BY DEF Terms
  <2>3. pool.bootstrap => Backing # 0
    BY <1>4 DEF Priced, TypeOK, Pool, Backing
  <2>4. s > 0
    BY <1>4, <1>7
  <2>5. QED
    BY <1>4, <1>6, <1>7, <1>11, <2>1, <2>2, <2>3, <2>4 DEF DepositFits, record, s, paid
<1>15. QED BY <1>12, <1>13, <1>14 DEF Fits

\* What Python quotes for a purchase is what the puzzle computes.
LEMMA PurchasePrepared ==
  ASSUME FitInv, NEW v \in Vault, NEW r \in pool.inventory, NEW coin \in purse,
         NEW until \in Expiry,
         PrepareSolsToDeed(v, r, coin, until), NEW q \in quotes' \ quotes
  PROVE  Fits(q)
<1> DEFINE terms == Terms(CollectionOf[r.deed])
           quote == PurchaseQuote(r.value)
           next == [quote.next EXCEPT !.inventory = @ \ {r}, !.version = @ + 1]
           p == BuyerPrincipal(r.value)
<1> USE DEF FitInv, HeldInv
<1>1. TermsAllow(terms, {1, 3}, until)
  BY DEF PrepareSolsToDeed
<1>2. r \in InventoryRecord /\ r.deed \in Deed /\ r.value \in Nat \ {0}
  BY DEF TypeOK, Pool, InventoryRecord
<1>3. terms.listing \in Listing
  <2>1. CollectionOf[r.deed] \in Collection
    BY <1>2, DeedAssumption
  <2>2. QED BY <2>1, <1>1, TermsListed
<1>4. /\ AsListed(r, terms.listing)
      /\ pool.count > 0 /\ r.value <= pool.nav /\ Priced
      /\ 0 < quote.principal /\ quote.principal <= Circulating
      /\ coin.amount >= quote.principal + quote.fee
  BY DEF PrepareSolsToDeed, BuyerOffer
<1>5. q = [kind |-> "purchase", deed |-> r.deed, terms |-> terms, pool |-> pool.version,
           vault |-> v, coin |-> vaultCoin[v], until |-> until,
           principal |-> quote.principal, fee |-> quote.fee, payment |-> coin, next |-> next]
  BY Zenon DEF PrepareSolsToDeed, Issue
<1>6. /\ q.kind = "purchase" /\ q.deed = r.deed /\ q.terms = terms /\ q.until = until
      /\ q.principal = quote.principal /\ q.fee = quote.fee /\ q.payment = coin
      /\ q.next = next
  BY <1>5
<1>7. /\ quote.principal = p /\ quote.fee = Fee(p)
      /\ quote.next = [pool EXCEPT !.bootstrap = TRUE, !.nav = @ - r.value, !.count = @ - 1,
                                   !.reserve = @ + p]
  BY DEF PurchaseQuote, DynamicSols, BuyerPrincipal
<1>8. p \in Nat \ {0}
  <2>1. DynamicSols(r.value, TRUE) \in Nat
    BY <1>2, <1>4, DynamicNat
  <2>2. p = DynamicSols(r.value, TRUE)
    BY DEF DynamicSols, BuyerPrincipal
  <2> HIDE DEF quote, p
  <2>3. p \in Nat
    BY <2>1, <2>2
  <2>4. p > 0
    BY <1>4, <1>7, <2>3
  <2>5. QED BY <2>3, <2>4
<1> HIDE DEF quote, p
<1>9. Fee(p) \in Nat
  BY <1>8, FeePositive
<1>10. next = [pool EXCEPT
            !.bootstrap = TRUE,
            !.inventory = @ \ {r}, !.nav = @ - r.value, !.count = @ - 1,
            !.reserve = @ + p, !.version = @ + 1]
  BY <1>7, <1>8 DEF TypeOK, Pool
<1>11. TermsFit(q)
  <2>1. until \in Nat
    BY SwapAssumption
  <2>2. terms.collection = CollectionOf[r.deed]
    BY DEF Terms
  <2>3. QED BY <1>1, <1>3, <1>6, <2>1, <2>2 DEF TermsFit, TermsAllow
<1>12. SumsFit(q)
  <2>1. Shaped(coin)
    BY DEF PurseOK
  <2>2. QED BY <1>4, <1>6, <1>7, <1>8, <1>9, <2>1 DEF SumsFit
<1>13. PurchaseFits(q)
  <2>1. /\ terms.listing.status \in {1, 3}
        /\ r.value = GovernedValue(terms.listing, r.deed)
        /\ r.version = terms.listing.version /\ r.until = terms.listing.until
    BY <1>1, <1>4 DEF TermsAllow, AsListed
  <2>2. Backing > 0 /\ Circulating > 0 /\ pool.count > 0 /\ pool.nav >= r.value
    BY <1>2, <1>4 DEF Priced, TypeOK, Pool
  <2>3. p > 0 /\ p <= Circulating
    BY <1>4, <1>7, <1>8
  <2>4. q.principal = p /\ q.fee = Fee(p)
    BY <1>6, <1>7
  <2>5. q.next = [pool EXCEPT
            !.bootstrap = TRUE,
            !.inventory = @ \ {r}, !.nav = @ - r.value, !.count = @ - 1,
            !.reserve = @ + p, !.version = @ + 1]
    BY <1>6, <1>10
  <2> HIDE DEF terms, next
  <2>6. QED BY <1>6, <2>1, <2>2, <2>3, <2>4, <2>5 DEF PurchaseFits, p
<1>14. QED BY <1>11, <1>12, <1>13 DEF Fits

\* Settling a fitting deposit is a deposit of the market.
LEMMA DepositAccepted ==
  ASSUME FitInv, PoolOpenable, NEW q \in quotes, NEW coin, SettleDeedToSols(q, coin)
  PROVE  Swap
<1> DEFINE l == q.terms.listing
           v == GovernedValue(l, q.deed)
           s == SellerSols(v)
           paid == ReservePaid(s)
<1> USE DEF FitInv, HeldInv
<1>1. Fits(q) /\ q.kind # "purchase" /\ q.pool = pool.version
  BY DEF QuotesFit, SettleDeedToSols, Settle, Current
<1>2. TermsFit(q) /\ DepositFits(q)
  BY <1>1 DEF Fits, PurchaseFits
<1>3. /\ pool' = q.next /\ q.terms \in evidence /\ InTime(q) /\ pool.version < MaxVersion
      /\ evidence' = {} /\ UNCHANGED <<now, listings, paused, registry>>
      /\ q.next.total <= MaxSols
  BY DEF SettleDeedToSols, Settle, Current
<1>4. SwapAllowed(q.terms)
  <2>1. l.after \in Nat /\ l.until \in Nat /\ now \in Nat
    BY <1>2, ListingAssumption, BoundAssumption DEF TermsFit, TypeOK, Time
  <2>2. l.after <= now /\ now < l.until
    BY <1>2, <1>3, <2>1 DEF TermsFit, InTime
  <2>3. QED BY <1>2, <1>3, <2>2 DEF SwapAllowed, PoolOpenable, TermsFit
<1>5. q.next = [pool EXCEPT
          !.bootstrap = TRUE,
          !.inventory = @ \cup {[deed |-> q.deed, value |-> v, version |-> l.version,
                                 until |-> l.until]},
          !.nav = @ + v, !.count = @ + 1, !.total = @ + s - paid, !.reserve = @ - paid,
          !.version = @ + 1]
  BY <1>2 DEF DepositFits
<1> HIDE DEF s, paid
<1>6. pool.total + s - paid <= MaxSols
  BY <1>3, <1>5 DEF TypeOK, Pool
<1>7. DeedToSols(q.deed, q.terms)
  BY <1>2, <1>3, <1>4, <1>5, <1>6 DEF DeedToSols, DepositFits, TermsFit, s, paid
<1>8. QED BY <1>2, <1>3, <1>7 DEF Swap, DepositFits

\* Settling a fitting purchase is a purchase of the market.
LEMMA PurchaseAccepted ==
  ASSUME FitInv, PoolOpenable, NEW q \in quotes, SettleSolsToDeed(q)
  PROVE  Swap
<1> DEFINE l == q.terms.listing
<1> USE DEF FitInv, HeldInv
<1>1. Fits(q) /\ q.kind = "purchase" /\ q.pool = pool.version
  BY DEF QuotesFit, SettleSolsToDeed, Settle, Current
<1>2. TermsFit(q) /\ SumsFit(q) /\ PurchaseFits(q)
  BY <1>1 DEF Fits, DepositFits
<1>3. /\ pool' = q.next /\ q.terms \in evidence /\ InTime(q) /\ pool.version < MaxVersion
      /\ evidence' = {} /\ UNCHANGED <<now, listings, paused, registry>>
  BY DEF SettleSolsToDeed, Settle, Current
<1>4. SwapAllowed(q.terms)
  <2>1. l.after \in Nat /\ l.until \in Nat /\ now \in Nat
    BY <1>2, ListingAssumption, BoundAssumption DEF TermsFit, TypeOK, Time
  <2>2. l.after <= now /\ now < l.until
    BY <1>2, <1>3, <2>1 DEF TermsFit, InTime
  <2>3. QED BY <1>2, <1>3, <2>2 DEF SwapAllowed, PoolOpenable, TermsFit
<1>5. PICK r \in pool.inventory :
        LET p == BuyerPrincipal(r.value)
        IN /\ l.status \in {1, 3} /\ r.deed = q.deed
           /\ r.value = GovernedValue(l, r.deed) /\ r.version = l.version
           /\ r.until = l.until
           /\ pool.count > 0 /\ Backing > 0 /\ Circulating > 0
           /\ p > 0 /\ p <= Circulating /\ pool.nav >= r.value
           /\ q.principal = p
           /\ q.next = [pool EXCEPT
                !.bootstrap = TRUE,
                !.inventory = @ \ {r}, !.nav = @ - r.value, !.count = @ - 1,
                !.reserve = @ + p, !.version = @ + 1]
  BY <1>2 DEF PurchaseFits
<1> DEFINE p == BuyerPrincipal(r.value)
<1>6. p \in Nat /\ p > 0 /\ p <= Circulating
  BY <1>1, <1>2, <1>5 DEF SumsFit
<1> HIDE DEF p
<1>7. pool.reserve + p <= pool.total
  BY <1>6 DEF Circulating, TypeOK, Pool
<1>8. SolsToDeed(r, q.terms)
  BY <1>2, <1>3, <1>4, <1>5, <1>7 DEF SolsToDeed, TermsFit, p
<1>9. QED BY <1>3, <1>8 DEF Swap

LEMMA FitInit == SwapInit => FitInv
<1> SUFFICES ASSUME SwapInit PROVE FitInv
  OBVIOUS
<1>1. purse = {} /\ quotes = {}
  BY DEF SwapInit
<1>2. QED BY <1>1, HeldInit DEF FitInv, PurseOK, QuotesFit

\* The coins of a vault stay coins when one is received or change is given.
LEMMA PurseReceive ==
  ASSUME PurseOK, NEW v, NEW amount \in Nat, Receive(v, amount)
  PROVE  PurseOK'
<1> DEFINE c == [name |-> FreeName(purse), amount |-> amount, vault |-> v]
<1>1. purse' = purse \cup {c} /\ Shaped(c)
  BY DEF Receive, Shaped
<1> HIDE DEF c
<1>2. QED BY <1>1 DEF PurseOK, Shaped

LEMMA PursePay ==
  ASSUME PurseOK, NEW coin \in purse, NEW amount \in Nat, amount <= coin.amount,
         Pay(coin, amount)
  PROVE  PurseOK'
<1> DEFINE c == [coin EXCEPT !.amount = @ - amount]
<1>1. purse' \subseteq purse \cup {c}
  BY DEF Pay
<1>2. Shaped(c)
  BY DEF PurseOK, Shaped
<1> HIDE DEF c
<1>3. QED BY <1>1, <1>2 DEF PurseOK, Shaped

LEMMA FitStep ==
  ASSUME FitInv, [SwapNext]_allVars
  PROVE  FitInv'
<1>1. HeldInv'
  BY HeldStep DEF FitInv
<1> USE DEF FitInv
<1>2. ASSUME UNCHANGED pool, quotes' \subseteq quotes PROVE QuotesFit'
  BY <1>2, FitsKept DEF QuotesFit
\* A settlement renews the pool coin: what is left are quotes of earlier ones.
<1>3. ASSUME NEW q \in quotes, Settle(q) PROVE QuotesFit'
  <2>1. pool' = q.next /\ q.pool = pool.version /\ quotes' \subseteq quotes
    BY <1>3 DEF Settle, Current
  <2>2. ASSUME NEW o \in quotes PROVE Fits(o)'
    <3>1. QuoteSound(o) /\ QuoteSound(q) /\ Fits(o)
      BY DEF HeldInv, QuotesSound, QuotesFit
    <3>2. o.pool # pool'.version
      BY <2>1, <3>1 DEF QuoteSound
    <3>3. TermsFit(o)' /\ SumsFit(o)'
      BY <3>1 DEF Fits, TermsFit, SumsFit, Shaped
    <3>4. QED BY <3>2, <3>3 DEF Fits
  <2>3. QED BY <2>1, <2>2 DEF QuotesFit
<1>4. CASE Market
  <2>1. UNCHANGED pool
    BY <1>4, RestTypes DEF Market, HeldInv
  <2>2. UNCHANGED <<purse, quotes>>
    BY <1>4 DEF Market, coinVars
  <2>3. QED BY <1>1, <1>2, <2>1, <2>2 DEF PurseOK, Shaped
<1>5. CASE Prepare
  <2>1. UNCHANGED <<vars, purse>>
    <3>1. ASSUME NEW q, Issue(q) PROVE UNCHANGED <<vars, purse>>
      BY <3>1 DEF Issue, coinVars
    <3>2. ASSUME NEW v, NEW d, NEW to, NEW until, PrepareDeedToSols(v, d, to, until)
          PROVE  \E q : Issue(q)
      BY <3>2 DEF PrepareDeedToSols
    <3>3. ASSUME NEW v, NEW r, NEW coin, NEW until, PrepareSolsToDeed(v, r, coin, until)
          PROVE  \E q : Issue(q)
      BY <3>3 DEF PrepareSolsToDeed
    <3>4. QED BY <1>5, <3>1, <3>2, <3>3 DEF Prepare
  <2>2. \A q \in quotes' \ quotes : Fits(q)
    BY <1>5, DepositPrepared, PurchasePrepared DEF Prepare
  <2>3. ASSUME NEW q \in quotes' PROVE Fits(q)'
    <3>1. Fits(q)
      BY <2>2 DEF QuotesFit
    <3>2. UNCHANGED pool
      BY <2>1 DEF vars
    <3>3. QED BY <3>1, <3>2, FitsKept
  <2>4. QED BY <1>1, <2>1, <2>3 DEF QuotesFit, PurseOK, Shaped
<1>6. ASSUME NEW q \in quotes, NEW coin \in reserve, SettleDeedToSols(q, coin)
      PROVE  FitInv'
  <2>1. Settle(q) /\ q.kind = "deposit"
    BY <1>6 DEF SettleDeedToSols
  <2>2. q.sols \in Nat
    BY <2>1 DEF QuotesFit, Fits, SumsFit
  <2>3. Receive(q.to, q.sols) \/ UNCHANGED purse
    BY <1>6 DEF SettleDeedToSols, Deliver
  <2>4. PurseOK'
    BY <2>2, <2>3, PurseReceive DEF PurseOK, Shaped
  <2>5. QED BY <1>1, <1>3, <2>1, <2>4
<1>7. ASSUME NEW q \in quotes, SettleSolsToDeed(q)
      PROVE  FitInv'
  <2>1. Settle(q) /\ q.kind = "purchase" /\ Pay(q.payment, q.principal + q.fee)
    BY <1>7 DEF SettleSolsToDeed
  <2>2. /\ q.principal + q.fee \in Nat /\ q.principal + q.fee <= q.payment.amount
        /\ q.payment \in purse
    BY <2>1 DEF QuotesFit, Fits, SumsFit, Pay
  <2>3. PurseOK'
    BY <2>1, <2>2, PursePay
  <2>4. QED BY <1>1, <1>3, <2>1, <2>3
<1>8. CASE \/ \E q \in quotes : GiveUp(q)
           \/ Consolidate
           \/ \E v, w \in Vault, deeds \in SUBSET Deed : SpendVault(v, deeds, w)
           \/ UNCHANGED allVars
  <2>1. UNCHANGED <<pool, purse>> /\ quotes' \subseteq quotes
    BY <1>8 DEF GiveUp, Consolidate, SpendVault, allVars, swapVars, coinVars, vars
  <2>2. QED BY <1>1, <1>2, <2>1 DEF PurseOK, Shaped
<1>9. CASE Stray
  <2>1. UNCHANGED <<pool, quotes>>
    BY <1>9 DEF Stray, SpendPurse, AddUngated, RemoveUngated, vars
  <2>2. ASSUME NEW amount \in Taken, NEW coin \in purse, SpendPurse(coin, amount)
        PROVE  PurseOK'
    BY <2>2, PursePay, SwapAssumption DEF SpendPurse
  <2>3. ASSUME NEW a \in Added, AddUngated(a.to, a.amount)
        PROVE  PurseOK'
    <3>1. a.amount \in Nat /\ (Receive(a.to, a.amount) \/ UNCHANGED purse)
      BY <2>3, SwapAssumption DEF AddUngated, Deliver
    <3>2. QED BY <3>1, PurseReceive DEF PurseOK, Shaped
  <2>4. ASSUME NEW amount \in Taken, RemoveUngated(amount) PROVE PurseOK'
    BY <2>4 DEF RemoveUngated, PurseOK, Shaped
  <2>5. QED BY <1>1, <1>2, <1>9, <2>1, <2>2, <2>3, <2>4 DEF Stray
<1>10. QED BY <1>4, <1>5, <1>6, <1>7, <1>8, <1>9 DEF SwapNext, Stray

\* Every step of a swap is a step of the market or leaves the market alone.
LEMMA StepAccepted ==
  ASSUME FitInv, PoolOpenable, [SwapNext]_allVars
  PROVE  [Next]_vars
<1>1. CASE Market
  BY <1>1 DEF Market, Next
<1>2. CASE Prepare
  <2>1. ASSUME NEW q, Issue(q) PROVE UNCHANGED vars
    BY <2>1 DEF Issue
  <2>2. ASSUME NEW v, NEW d, NEW to, NEW until, PrepareDeedToSols(v, d, to, until)
        PROVE  \E q : Issue(q)
    BY <2>2 DEF PrepareDeedToSols
  <2>3. ASSUME NEW v, NEW r, NEW coin, NEW until, PrepareSolsToDeed(v, r, coin, until)
        PROVE  \E q : Issue(q)
    BY <2>3 DEF PrepareSolsToDeed
  <2>4. QED BY <1>2, <2>1, <2>2, <2>3 DEF Prepare
<1>3. ASSUME NEW q \in quotes, NEW coin \in reserve, SettleDeedToSols(q, coin)
      PROVE  Next
  BY <1>3, DepositAccepted DEF Next
<1>4. ASSUME NEW q \in quotes, SettleSolsToDeed(q)
      PROVE  Next
  BY <1>4, PurchaseAccepted DEF Next
<1>5. CASE \/ \E q \in quotes : GiveUp(q)
           \/ Consolidate
           \/ \E v, w \in Vault, deeds \in SUBSET Deed : SpendVault(v, deeds, w)
           \/ Stray \/ UNCHANGED allVars
  BY <1>5 DEF GiveUp, Consolidate, SpendVault, Stray, SpendPurse, AddUngated, RemoveUngated,
              allVars
<1>6. QED BY <1>1, <1>2, <1>3, <1>4, <1>5 DEF SwapNext, Stray

----------------------------------------------------------------------------
(***************************************************************************)
(* The coins.  Two coins of an owner never share a name, so that a coin    *)
(* spent is one element less of its set and a coin created one more; and   *)
(* there is a name for each, for no more Sols exist than the total and     *)
(* what is added without the pool.                                         *)
(***************************************************************************)
Kept(coins) ==
  /\ IsFiniteSet(coins)
  /\ \A c \in coins : c.amount \in Nat \ {0}
  /\ \A b, c \in coins : b.name = c.name => b = c

UngatedOK == ungated \in [added : 0 .. MaxUngated, removed : Nat]

BooksInv ==
  Kept(reserve) /\ Kept(purse) /\ wallets \in Nat /\ UngatedOK /\ BooksMatchCoins

\* A function that gives the amounts of a set of coins makes Amount a total.
LEMMA AmountIsTotal ==
  ASSUME NEW S, NEW T \in SUBSET S
  PROVE  Amount(T) = Total([c \in S |-> c.amount], T)
<1> DEFINE f == [c \in S |-> c.amount]
<1>1. [c \in T |-> c.amount] = [c \in T |-> f[c]]
  OBVIOUS
<1>2. QED BY <1>1 DEF Amount, Total

LEMMA CoinAdded ==
  ASSUME NEW S, Kept(S), NEW x, x.amount \in Nat \ {0}, \A c \in S : c.name # x.name
  PROVE  Kept(S \cup {x}) /\ Amount(S \cup {x}) = Amount(S) + x.amount
<1> DEFINE T == S \cup {x}
           f == [c \in T |-> c.amount]
<1>1. IsFiniteSet(T) /\ x \notin S
  BY FS_AddElement DEF Kept
<1>2. \A c \in T : f[c] = c.amount /\ f[c] \in Nat
  BY DEF Kept
<1>3. Amount(S) = Total(f, S) /\ Amount(T) = Total(f, T)
  BY AmountIsTotal
<1> HIDE DEF f
<1>4. Total(f, S \cup {x}) = Total(f, S) + f[x]
  BY <1>1, <1>2, TotalAdd DEF Kept
<1>5. Amount(T) = Amount(S) + x.amount
  BY <1>2, <1>3, <1>4
<1>6. QED BY <1>1, <1>5 DEF Kept

LEMMA CoinRemoved ==
  ASSUME NEW S, Kept(S), NEW x \in S
  PROVE  /\ Kept(S \ {x}) /\ \A c \in S \ {x} : c.name # x.name
         /\ Amount(S \ {x}) \in Nat /\ Amount(S) = Amount(S \ {x}) + x.amount
<1> DEFINE T == S \ {x}
           f == [c \in S |-> c.amount]
<1>1. Kept(T) /\ \A c \in T : c.name # x.name
  BY FS_RemoveElement DEF Kept
<1>2. \A c \in S : f[c] = c.amount /\ f[c] \in Nat
  BY DEF Kept
<1>3. Amount(S) = Total(f, S) /\ Amount(T) = Total(f, T)
  BY AmountIsTotal
<1> HIDE DEF f
<1>4. Total(f, S) = Total(f, S \ {x}) + f[x] /\ Total(f, S \ {x}) \in Nat
  BY <1>2, TotalRemove DEF Kept
<1>5. QED BY <1>1, <1>2, <1>3, <1>4

LEMMA AmountBounds ==
  ASSUME NEW S, Kept(S)
  PROVE  /\ Amount(S) \in Nat
         /\ Cardinality(S) \in Nat /\ Cardinality(S) <= Amount(S)
         /\ \A c \in S : c.amount <= Amount(S)
<1> DEFINE f == [c \in S |-> c.amount]
<1>1. \A c \in S : f[c] = c.amount /\ f[c] \in Nat \ {0}
  BY DEF Kept
<1>2. Amount(S) = Total(f, S)
  BY AmountIsTotal
<1> HIDE DEF f
<1>3. Total(f, S) \in Nat /\ Cardinality(S) \in Nat /\ Cardinality(S) <= Total(f, S)
  BY <1>1, TotalCounts, TotalBoundsCount DEF Kept
<1>4. ASSUME NEW c \in S PROVE c.amount <= Amount(S)
  BY <1>1, <1>2, TotalRemove DEF Kept
<1>5. QED BY <1>2, <1>3, <1>4

\* Coins of no more than can exist leave a name free.
LEMMA NameIsFree ==
  ASSUME NEW S, Kept(S), Amount(S) <= MaxSols + MaxUngated
  PROVE  \A c \in S : c.name # FreeName(S)
<1> DEFINE names == {c.name : c \in S}
           g == [c \in S |-> c.name]
<1>1. IsFiniteSet(names) /\ Cardinality(names) <= Cardinality(S)
  <2>1. g \in Surjection(S, names)
    BY DEF Surjection
  <2>2. QED BY <2>1, FS_Surjection DEF Kept
<1>0. MaxSols + MaxUngated \in Nat
  BY BoundAssumption, SwapAssumption
<1>2. IsFiniteSet(CoinName) /\ Cardinality(CoinName) = MaxSols + MaxUngated + 1
  BY <1>0, FS_Interval DEF CoinName
<1>3. Cardinality(names) \in Nat /\ Cardinality(names) <= MaxSols + MaxUngated
  BY <1>0, <1>1, AmountBounds, FS_CardinalityType
<1> HIDE DEF names
<1>4. ~(CoinName \subseteq names)
  <2>1. SUFFICES ASSUME CoinName \subseteq names PROVE FALSE
    OBVIOUS
  <2>2. Cardinality(CoinName) <= Cardinality(names)
    BY <1>1, <2>1, FS_Subset
  <2>3. QED BY <1>0, <1>2, <1>3, <2>2
<1>5. \E n \in CoinName : \A c \in S : c.name # n
  BY <1>4 DEF names
<1>6. QED BY <1>5 DEF FreeName

\* The vaults have their coins from what circulates and what was added to it, so that
\* there is a name for one more.
LEMMA PurseBounds ==
  ASSUME BooksInv, OpenInv
  PROVE  /\ Circulating \in Nat /\ Circulating <= MaxSols
         /\ ungated.added \in Nat /\ ungated.added <= MaxUngated /\ ungated.removed \in Nat
         /\ Amount(purse) \in Nat /\ Amount(purse) <= Circulating + ungated.added
         /\ \A c \in purse : c.name # FreeName(purse)
<1>1. Circulating \in Nat /\ Circulating <= MaxSols
  BY BoundAssumption DEF OpenInv, PoolOpenable, IInv, TypeOK, Pool, Circulating
<1>2. ungated.added \in Nat /\ ungated.added <= MaxUngated /\ ungated.removed \in Nat
  BY SwapAssumption DEF BooksInv, UngatedOK
<1>3. Amount(purse) \in Nat
  BY AmountBounds DEF BooksInv
<1>4. Amount(purse) <= Circulating + ungated.added
  BY <1>1, <1>2, <1>3 DEF BooksInv, BooksMatchCoins
<1>5. Amount(purse) <= MaxSols + MaxUngated
  BY <1>1, <1>2, <1>3, <1>4, BoundAssumption, SwapAssumption
<1>6. QED BY <1>1, <1>2, <1>3, <1>4, <1>5, NameIsFree DEF BooksInv

\* A coin that a vault receives, and one that pays: as much more or less in the purse.
LEMMA PurseGains ==
  ASSUME BooksInv, OpenInv, NEW to, NEW amount \in Nat \ {0}, Deliver(to, amount)
  PROVE  /\ Kept(purse') /\ wallets' \in Nat /\ Amount(purse') \in Nat
         /\ Amount(purse') + wallets' = Amount(purse) + wallets + amount
<1> DEFINE due == [name |-> FreeName(purse), amount |-> amount, vault |-> to]
<1>1. \/ purse' = purse \cup {due} /\ wallets' = wallets
      \/ purse' = purse /\ wallets' = wallets + amount
  BY DEF Deliver, Receive
<1>2. due.name = FreeName(purse) /\ due.amount = amount
  OBVIOUS
<1> HIDE DEF due
<1>3. Kept(purse \cup {due}) /\ Amount(purse \cup {due}) = Amount(purse) + amount
  BY <1>2, PurseBounds, CoinAdded DEF BooksInv
<1>4. Amount(purse) \in Nat /\ wallets \in Nat /\ Kept(purse)
  BY PurseBounds DEF BooksInv
<1>5. QED BY <1>1, <1>3, <1>4

LEMMA PurseLoses ==
  ASSUME BooksInv, NEW coin \in purse, NEW amount \in Nat, amount <= coin.amount, Shaped(coin),
         Pay(coin, amount)
  PROVE  /\ Kept(purse') /\ Amount(purse) \in Nat /\ Amount(purse') \in Nat
         /\ Amount(purse') = Amount(purse) - amount
<1> DEFINE change == [coin EXCEPT !.amount = @ - amount]
           P == purse \ {coin}
<1>0. Kept(purse) /\ Amount(purse) \in Nat /\ coin.amount \in Nat
  BY AmountBounds DEF BooksInv, Shaped
<1>1. purse' = P \cup (IF coin.amount = amount THEN {} ELSE {change})
  BY DEF Pay
<1>2. change.name = coin.name /\ change.amount = coin.amount - amount
  BY DEF Shaped
<1> HIDE DEF change
<1>3. /\ Kept(P) /\ \A c \in P : c.name # coin.name
      /\ Amount(P) \in Nat /\ Amount(purse) = Amount(P) + coin.amount
  BY <1>0, CoinRemoved
<1> HIDE DEF P
<1>4. CASE coin.amount = amount
  <2>1. purse' = P
    BY <1>1, <1>4
  <2>2. QED BY <1>0, <1>3, <1>4, <2>1
<1>5. CASE coin.amount # amount
  <2>1. purse' = P \cup {change}
    BY <1>1, <1>5
  <2>2. change.amount \in Nat \ {0}
    BY <1>0, <1>2, <1>5
  <2>3. Kept(P \cup {change}) /\ Amount(P \cup {change}) = Amount(P) + change.amount
    BY <1>2, <1>3, <2>2, CoinAdded
  <2>4. QED BY <1>0, <1>2, <1>3, <2>1, <2>3
<1>6. QED BY <1>4, <1>5

LEMMA BooksInit == SwapInit => BooksInv
<1> SUFFICES ASSUME SwapInit PROVE BooksInv
  OBVIOUS
<1> DEFINE c == [name |-> 0, amount |-> 1]
<1>1. /\ reserve = {c} /\ purse = {} /\ wallets = 0 /\ pool.reserve = 1 /\ pool.total = 1
      /\ ungated = [added |-> 0, removed |-> 0] /\ UngatedOK
  BY SwapAssumption DEF SwapInit, Init, UngatedOK
<1>2. Kept({})
  BY FS_EmptySet DEF Kept
<1>3. Amount({}) = 0
  BY AmountIsTotal, TotalEmpty
<1>4. c.amount = 1
  OBVIOUS
<1> HIDE DEF c
<1>5. Kept({} \cup {c}) /\ Amount({} \cup {c}) = 1
  BY <1>2, <1>3, <1>4, CoinAdded
<1>6. {} \cup {c} = {c}
  OBVIOUS
<1>7. QED BY <1>1, <1>2, <1>3, <1>5, <1>6 DEF BooksInv, BooksMatchCoins, Circulating

\* A settled deposit: the coin that was the whole reserve is so again, and what
\* was minted or paid out of it is a coin of the seller's.
LEMMA BooksDeposit ==
  ASSUME FitInv, OpenInv, BooksInv, NEW q \in quotes, NEW coin \in reserve,
         SettleDeedToSols(q, coin)
  PROVE  BooksInv'
<1> DEFINE v == GovernedValue(q.terms.listing, q.deed)
           s == SellerSols(v)
           paid == ReservePaid(s)
           rest == [name |-> coin.name, amount |-> coin.amount + Minted(q.next) - q.sols]
           R == reserve \ {coin}
<1> USE DEF BooksInv
<1>1. Fits(q) /\ q.kind # "purchase" /\ q.pool = pool.version
  BY DEF FitInv, QuotesFit, SettleDeedToSols, Settle, Current
<1>2. DepositFits(q) /\ q.sols \in Nat
  BY <1>1 DEF Fits, PurchaseFits, SumsFit, DepositFits
<1>3. /\ q.sols = s /\ s > 0
      /\ q.next = [pool EXCEPT
          !.bootstrap = TRUE,
          !.inventory = @ \cup {[deed |-> q.deed, value |-> v,
                                 version |-> q.terms.listing.version,
                                 until |-> q.terms.listing.until]},
          !.nav = @ + v, !.count = @ + 1, !.total = @ + s - paid, !.reserve = @ - paid,
          !.version = @ + 1]
  BY <1>2 DEF DepositFits
<1> HIDE DEF v, s
<1>4. /\ s \in Nat \ {0} /\ pool.reserve \in Nat \ {0} /\ pool.total \in Nat
      /\ pool.total <= MaxSols
  BY <1>2, <1>3 DEF OpenInv, PoolOpenable, IInv, TypeOK, Pool
<1>5. paid \in Nat /\ paid < pool.reserve /\ paid <= s
  BY <1>4 DEF ReservePaid, Lesser
<1> HIDE DEF paid
<1>6. q.next.total = pool.total + s - paid /\ q.next.reserve = pool.reserve - paid
  BY <1>3 DEF OpenInv, IInv, TypeOK, Pool
<1>7. /\ pool' = q.next /\ coin.amount = pool.reserve
      /\ reserve' = R \cup {rest} /\ Deliver(q.to, q.sols) /\ ungated' = ungated
  BY DEF SettleDeedToSols, Settle, PayFromReserve
<1>8. rest.name = coin.name /\ rest.amount = pool.reserve - paid
  BY <1>3, <1>4, <1>5, <1>6, <1>7 DEF Minted
<1> HIDE DEF rest
<1>10. Kept(reserve') /\ Amount(reserve') = pool'.reserve
  <2>1. /\ Kept(R) /\ \A c \in R : c.name # coin.name
        /\ Amount(R) \in Nat /\ Amount(reserve) = Amount(R) + coin.amount
    BY CoinRemoved
  <2>2. Amount(reserve) = pool.reserve
    BY DEF BooksMatchCoins
  <2>3. Amount(R) = 0
    BY <1>4, <1>7, <2>1, <2>2
  <2> HIDE DEF R
  <2>4. Kept(R \cup {rest}) /\ Amount(R \cup {rest}) = Amount(R) + rest.amount
    BY <1>4, <1>5, <1>8, <2>1, CoinAdded
  <2>5. QED BY <1>4, <1>5, <1>6, <1>7, <1>8, <2>3, <2>4
<1>11. /\ Kept(purse') /\ wallets' \in Nat /\ Amount(purse') \in Nat
       /\ Amount(purse') + wallets' = Amount(purse) + wallets + s
  BY <1>3, <1>4, <1>7, PurseGains
<1>12. Circulating' = Circulating + s
  <2>1. pool'.total = pool.total + s - paid /\ pool'.reserve = pool.reserve - paid
    BY <1>6, <1>7
  <2>2. QED BY <1>4, <1>5, <2>1 DEF Circulating
<1>13. Amount(purse') + wallets' + ungated'.removed = Circulating' + ungated'.added
  <2>1. Amount(purse) + wallets + ungated.removed = Circulating + ungated.added
    BY DEF BooksMatchCoins
  <2>2. QED BY <1>4, <1>7, <1>11, <1>12, <2>1, PurseBounds
<1>14. UngatedOK'
  BY <1>7 DEF UngatedOK
<1>15. QED BY <1>10, <1>11, <1>13, <1>14 DEF BooksMatchCoins

\* A settled purchase: one coin of the buyer's vault becomes its change, a coin of
\* the reserve and fees.
LEMMA BooksPurchase ==
  ASSUME FitInv, OpenInv, BooksInv, NEW q \in quotes, SettleSolsToDeed(q)
  PROVE  BooksInv'
<1> DEFINE coin == q.payment
           p == q.principal
           R == [name |-> FreeName(reserve), amount |-> p]
<1> USE DEF BooksInv
<1>1. Fits(q) /\ q.kind # "deposit" /\ q.kind = "purchase" /\ q.pool = pool.version
  BY DEF FitInv, QuotesFit, SettleSolsToDeed, Settle, Current
<1>2. /\ PurchaseFits(q) /\ Shaped(coin) /\ p \in Nat /\ q.fee \in Nat
      /\ p + q.fee <= coin.amount
  BY <1>1 DEF Fits, DepositFits, SumsFit
<1>3. /\ pool' = q.next /\ coin \in purse /\ Pay(coin, p + q.fee) /\ ungated' = ungated
      /\ reserve' = reserve \cup {R} /\ wallets' = wallets + q.fee
  BY DEF SettleSolsToDeed, Settle, Pay, Divide
<1>4. /\ p > 0 /\ q.next.total = pool.total /\ q.next.reserve = pool.reserve + p
      /\ pool.reserve \in Nat /\ pool.total \in Nat /\ pool.total <= MaxSols
      /\ pool.reserve <= pool.total
  <2>1. PICK r \in pool.inventory :
          /\ BuyerPrincipal(r.value) > 0 /\ p = BuyerPrincipal(r.value)
          /\ q.next = [pool EXCEPT
               !.bootstrap = TRUE,
               !.inventory = @ \ {r}, !.nav = @ - r.value, !.count = @ - 1,
               !.reserve = @ + BuyerPrincipal(r.value), !.version = @ + 1]
    BY <1>2 DEF PurchaseFits
  <2>2. QED BY <2>1 DEF OpenInv, PoolOpenable, IInv, TypeOK, Pool
<1>6. R.name = FreeName(reserve) /\ R.amount = p
  OBVIOUS
<1> HIDE DEF R, coin, p
<1>7. Kept(reserve') /\ Amount(reserve') = pool'.reserve
  <2>1. Amount(reserve) = pool.reserve
    BY DEF BooksMatchCoins
  <2>2. \A c \in reserve : c.name # R.name
    BY <1>4, <1>6, <2>1, NameIsFree, BoundAssumption, SwapAssumption
  <2>3. Kept(reserve \cup {R}) /\ Amount(reserve \cup {R}) = Amount(reserve) + p
    BY <1>2, <1>4, <1>6, <2>2, CoinAdded
  <2>4. QED BY <1>3, <1>4, <2>1, <2>3
<1>8. /\ Kept(purse') /\ Amount(purse) \in Nat
      /\ Amount(purse') = Amount(purse) - (p + q.fee)
  <2>1. p + q.fee \in Nat
    BY <1>2
  <2>2. QED BY <1>2, <1>3, <2>1, PurseLoses
<1>9. Amount(purse') + wallets' + ungated'.removed = Circulating' + ungated'.added
  <2>1. Circulating' = Circulating - p
    BY <1>2, <1>3, <1>4 DEF Circulating
  <2>2. Amount(purse) + wallets + ungated.removed = Circulating + ungated.added
    BY DEF BooksMatchCoins
  <2>3. QED BY <1>2, <1>3, <1>8, <2>1, <2>2, PurseBounds
<1>10. wallets' \in Nat /\ UngatedOK'
  BY <1>2, <1>3 DEF UngatedOK
<1>11. QED BY <1>7, <1>8, <1>9, <1>10 DEF BooksMatchCoins

\* The reserve's coins joined are one coin of their amount.
LEMMA BooksConsolidate ==
  ASSUME OpenInv, BooksInv, Consolidate
  PROVE  BooksInv'
<1> DEFINE c == [name |-> 0, amount |-> Amount(reserve)]
<1>1. reserve' = {} \cup {c} /\ UNCHANGED <<pool, purse, wallets, ungated>>
  BY DEF Consolidate, vars
<1>2. c.amount = Amount(reserve) /\ c.amount \in Nat \ {0}
  BY DEF BooksInv, BooksMatchCoins, OpenInv, PoolOpenable, IInv, TypeOK, Pool
<1> HIDE DEF c
<1>3. Kept({}) /\ Amount({}) = 0
  BY FS_EmptySet, AmountIsTotal, TotalEmpty DEF Kept
<1>4. Kept({} \cup {c}) /\ Amount({} \cup {c}) = Amount(reserve)
  BY <1>2, <1>3, CoinAdded
<1>5. Circulating' = Circulating /\ UngatedOK'
  BY <1>1 DEF Circulating, BooksInv, UngatedOK
<1>6. QED BY <1>1, <1>4, <1>5 DEF BooksInv, BooksMatchCoins

\* What others do changes the coins and the history of what is ungated by as much.
LEMMA BooksStray ==
  ASSUME FitInv, OpenInv, BooksInv, Stray
  PROVE  BooksInv' /\ UNCHANGED pool /\ ungated'.added >= ungated.added
<1> USE DEF BooksInv
<1>1. UNCHANGED <<pool, reserve>>
  BY DEF Stray, SpendPurse, AddUngated, RemoveUngated, vars
<1>2. /\ Kept(reserve') /\ Amount(reserve') = pool'.reserve /\ Circulating' = Circulating
      /\ Amount(purse) + wallets + ungated.removed = Circulating + ungated.added
      /\ Kept(purse) /\ wallets \in Nat /\ UngatedOK
  BY <1>1 DEF BooksMatchCoins, Circulating
<1>3. ASSUME NEW amount \in Taken, NEW coin \in purse, SpendPurse(coin, amount)
      PROVE  BooksInv' /\ ungated'.added >= ungated.added
  <2>1. /\ amount \in Nat /\ amount <= coin.amount /\ Pay(coin, amount)
        /\ wallets' = wallets + amount /\ ungated' = ungated
    BY <1>3, SwapAssumption DEF SpendPurse
  <2>2. Shaped(coin)
    BY DEF FitInv, PurseOK
  <2>3. /\ Kept(purse') /\ Amount(purse) \in Nat /\ Amount(purse') \in Nat
        /\ Amount(purse') = Amount(purse) - amount
    BY <2>1, <2>2, PurseLoses
  <2>4. QED BY <1>2, <2>1, <2>3, PurseBounds DEF UngatedOK, BooksMatchCoins
<1>4. ASSUME NEW a \in Added, AddUngated(a.to, a.amount)
      PROVE  BooksInv' /\ ungated'.added >= ungated.added
  <2>1. /\ a.amount \in Nat \ {0} /\ Deliver(a.to, a.amount)
        /\ ungated.added + a.amount <= MaxUngated
        /\ ungated' = [ungated EXCEPT !.added = ungated.added + a.amount]
    BY <1>4, SwapAssumption DEF AddUngated
  <2>2. /\ Kept(purse') /\ wallets' \in Nat /\ Amount(purse') \in Nat
        /\ Amount(purse') + wallets' = Amount(purse) + wallets + a.amount
    BY <2>1, PurseGains
  <2>3. /\ ungated'.added = ungated.added + a.amount /\ ungated'.removed = ungated.removed
        /\ UngatedOK'
    BY <1>2, <2>1, SwapAssumption DEF UngatedOK
  <2>4. QED BY <1>2, <2>1, <2>2, <2>3, PurseBounds DEF BooksMatchCoins
<1>5. ASSUME NEW amount \in Taken, RemoveUngated(amount)
      PROVE  BooksInv' /\ ungated'.added >= ungated.added
  <2>1. /\ amount \in Nat /\ amount <= wallets /\ wallets' = wallets - amount
        /\ purse' = purse
        /\ ungated' = [ungated EXCEPT !.removed = ungated.removed + amount]
    BY <1>5, SwapAssumption DEF RemoveUngated
  <2>2. /\ ungated'.added = ungated.added /\ ungated'.removed = ungated.removed + amount
        /\ UngatedOK'
    BY <1>2, <2>1, PurseBounds DEF UngatedOK
  <2>3. QED BY <1>2, <2>1, <2>2, PurseBounds DEF BooksMatchCoins
<1>6. QED BY <1>1, <1>3, <1>4, <1>5 DEF Stray

LEMMA BooksStep ==
  ASSUME FitInv, OpenInv, BooksInv, [SwapNext]_allVars
  PROVE  BooksInv'
<1>1. CASE UNCHANGED <<pool, reserve, purse, wallets, ungated>>
  BY <1>1 DEF BooksInv, BooksMatchCoins, Kept, Circulating, UngatedOK
<1>2. CASE Market \/ Prepare
  <2>1. Market => UNCHANGED <<pool, reserve, purse, wallets, ungated>>
    BY RestTypes DEF Market, coinVars, OpenInv, IInv
  <2>2. Prepare => UNCHANGED <<pool, reserve, purse, wallets, ungated>>
    <3>1. ASSUME NEW q, Issue(q) PROVE UNCHANGED <<pool, reserve, purse, wallets, ungated>>
      BY <3>1 DEF Issue, vars, coinVars
    <3>2. ASSUME NEW v, NEW d, NEW to, NEW until, PrepareDeedToSols(v, d, to, until)
          PROVE  \E q : Issue(q)
      BY <3>2 DEF PrepareDeedToSols
    <3>3. ASSUME NEW v, NEW r, NEW coin, NEW until, PrepareSolsToDeed(v, r, coin, until)
          PROVE  \E q : Issue(q)
      BY <3>3 DEF PrepareSolsToDeed
    <3>4. QED BY <3>1, <3>2, <3>3 DEF Prepare
  <2>3. QED BY <1>1, <1>2, <2>1, <2>2
<1>3. CASE \/ \E q \in quotes : GiveUp(q)
           \/ \E v, w \in Vault, deeds \in SUBSET Deed : SpendVault(v, deeds, w)
           \/ UNCHANGED allVars
  BY <1>1, <1>3 DEF GiveUp, SpendVault, allVars, swapVars, coinVars, vars
<1>4. CASE \E q \in quotes : SettleSolsToDeed(q) \/ \E coin \in reserve : SettleDeedToSols(q, coin)
  BY <1>4, BooksDeposit, BooksPurchase
<1>5. CASE Consolidate
  BY <1>5, BooksConsolidate
<1>6. CASE Stray
  BY <1>6, BooksStray
<1>7. QED BY <1>2, <1>3, <1>4, <1>5, <1>6 DEF SwapNext, Stray

(***************************************************************************)
(* The whole: quotes fit, the pool is openable and the books match, each   *)
(* from one step to the next because the others hold.                      *)
(***************************************************************************)
MarketInv == FitInv /\ OpenInv /\ BooksInv

LEMMA MarketStep ==
  ASSUME MarketInv, [SwapNext]_allVars
  PROVE  MarketInv' /\ [Next]_vars
<1> USE DEF MarketInv
<1>1. [Next]_vars
  BY StepAccepted DEF OpenInv
<1>2. QED BY <1>1, FitStep, OpenStep, BooksStep

THEOREM MarketInvariance == SwapSpec => []MarketInv
<1>1. SwapInit => MarketInv
  BY FitInit, OpenInit, BooksInit DEF MarketInv, SwapInit
<1>2. MarketInv /\ [SwapNext]_allVars => MarketInv'
  BY MarketStep
<1>3. QED BY <1>1, <1>2, PTL DEF SwapSpec

\* The coins of the reserve add up to the books of the pool, and all others to what
\* circulates by them and what was added and removed without the pool, whatever is
\* quoted, settled, given up, consolidated or taken in between.
THEOREM BooksAreKept == SwapSpec => []BooksMatchCoins
<1>1. MarketInv => BooksMatchCoins
  BY DEF MarketInv, BooksInv
<1>2. QED BY <1>1, MarketInvariance, PTL

\* Whatever the prices, shares and fees, a bundle of the Python driver that finds its
\* coins unspent is a swap the pool's puzzle accepts.
THEOREM QuotesAccepted == SwapSpec => ImplementsMarket
<1>1. SwapInit => Init
  BY DEF SwapInit
<1>2. MarketInv /\ [SwapNext]_allVars => [Next]_vars
  BY MarketStep
<1>3. QED BY <1>1, <1>2, MarketInvariance, PTL DEF SwapSpec, Spec, ImplementsMarket

\* So what holds of the market holds of the market with its quotes and coins, those
\* that were added without the pool included.
COROLLARY SwapsKeepMarket ==
  SwapSpec => []PoolOpenable /\ NavNeverFalls /\ NoFreeRoundTrip
<1>1. QED
  BY QuotesAccepted, PoolStaysOpenable, NavIsKept, RoundTripNotFree, PTL
     DEF ImplementsMarket

----------------------------------------------------------------------------
(***************************************************************************)
(* The last deed.  Its principal is all that circulates, and the fee comes *)
(* on top: a coin that pays both holds Sols that were added.               *)
(***************************************************************************)
\* A purchase paid with Sols of the pool's own leaves backing and circulating Sols.
LEMMA PurchaseLeavesSome ==
  ASSUME MarketInv, NEW q \in quotes, SettleSolsToDeed(q), ungated.added = 0
  PROVE  Backing' > 0 /\ Circulating' > 0
<1> USE DEF MarketInv
<1>1. /\ Fits(q) /\ q.kind = "purchase" /\ q.pool = pool.version /\ q.payment \in purse
      /\ pool' = q.next
  BY DEF FitInv, QuotesFit, SettleSolsToDeed, Settle, Current, Pay
<1>2. SumsFit(q) /\ PurchaseFits(q)
  BY <1>1 DEF Fits, DepositFits
<1>3. pool \in Pool
  BY DEF OpenInv, IInv, TypeOK
<1>4. PICK r \in pool.inventory :
        /\ Backing > 0 /\ Circulating > 0
        /\ BuyerPrincipal(r.value) > 0 /\ BuyerPrincipal(r.value) <= Circulating
        /\ pool.nav >= r.value
        /\ q.principal = BuyerPrincipal(r.value) /\ q.fee = Fee(BuyerPrincipal(r.value))
        /\ q.next = [pool EXCEPT
             !.bootstrap = TRUE,
             !.inventory = @ \ {r}, !.nav = @ - r.value, !.count = @ - 1,
             !.reserve = @ + BuyerPrincipal(r.value), !.version = @ + 1]
  BY <1>2 DEF PurchaseFits
<1> DEFINE v == r.value
           p == BuyerPrincipal(v)
<1>5. v \in Nat \ {0} /\ Circulating \in Nat /\ Backing \in Nat \ {0} /\ v <= Backing
  BY <1>3, <1>4, PurseBounds DEF Pool, InventoryRecord, Backing
<1>6. Circulating' = Circulating - p /\ Backing' = Backing - v
  BY <1>1, <1>2, <1>3, <1>4 DEF Circulating, Backing, Pool, SumsFit
<1>7. p \in Nat \ {0} /\ p + Fee(p) <= q.payment.amount /\ q.payment.amount \in Nat
  BY <1>1, <1>2, <1>4 DEF SumsFit, Shaped
<1>8. q.payment.amount <= Circulating
  <2>1. q.payment.amount <= Amount(purse)
    BY <1>1, AmountBounds DEF BooksInv
  <2>2. QED BY <1>5, <1>7, <2>1, PurseBounds
<1> HIDE DEF v
<1>9. v * Circulating <= p * Backing
  <2>1. v * Circulating \in Nat
    BY <1>5
  <2>2. QED BY <1>5, <2>1, CeilBounds DEF BuyerPrincipal
<1> HIDE DEF p
<1>10. p < Circulating
  BY <1>5, <1>7, <1>8, FeePositive
<1>11. v # Backing
  <2>1. SUFFICES ASSUME v = Backing PROVE FALSE
    OBVIOUS
  <2>2. Circulating * Backing <= p * Backing
    BY <1>5, <1>7, <1>9, <2>1
  <2>3. Circulating <= p
    BY <1>5, <1>7, <2>2, CancelFactor
  <2>4. QED BY <1>5, <1>7, <1>10, <2>3
<1>12. QED BY <1>5, <1>6, <1>7, <1>10, <1>11

\* Whatever fee is charged, an opened pool never loses all its backing or all
\* circulating Sols, as long as nobody adds Sols without it.
THEOREM PoolNeverDrained == SwapSpec => []NeverDrained
<1>1. SwapInit => NeverDrained
  BY DEF SwapInit, Init, NeverDrained
<1>2. MarketInv /\ NeverDrained /\ [SwapNext]_allVars => NeverDrained'
  <2> SUFFICES ASSUME MarketInv, NeverDrained, [SwapNext]_allVars PROVE NeverDrained'
    OBVIOUS
  <2> USE DEF MarketInv
  <2>1. ASSUME NEW q \in quotes, NEW coin \in reserve, SettleDeedToSols(q, coin)
        PROVE  NeverDrained'
    <3>1. Swap /\ q.kind = "deposit" /\ q.pool = pool.version /\ Fits(q) /\ pool' = q.next
      BY <2>1, DepositAccepted DEF OpenInv, FitInv, QuotesFit, SettleDeedToSols, Settle, Current
    <3>2. pool'.nav > pool.nav
      <4>1. GovernedValue(q.terms.listing, q.deed) \in Nat \ {0}
        BY <3>1, ValuePositive DEF Fits, TermsFit, DepositFits, PurchaseFits
      <4>2. pool'.nav = pool.nav + GovernedValue(q.terms.listing, q.deed) /\ pool.nav \in Nat
        BY <3>1 DEF Fits, DepositFits, PurchaseFits, OpenInv, IInv, TypeOK, Pool
      <4>3. QED BY <4>1, <4>2
    <3>3. PICK e \in evidence :
            \/ \E d \in Deed : DeedToSols(d, e)
            \/ \E r \in pool.inventory : SolsToDeed(r, e)
      BY <3>1 DEF Swap
    <3>4. CASE \E d \in Deed : DeedToSols(d, e)
      BY <3>4, DepositEffect DEF OpenInv, NeverDrained
    <3>5. CASE \E r \in pool.inventory : SolsToDeed(r, e)
      <4>1. pool'.nav <= pool.nav
        BY <3>5, PurchaseEffect DEF OpenInv, IInv, TypeOK, Pool
      <4>2. pool'.nav \in Nat /\ pool.nav \in Nat
        BY <3>5, PurchaseEffect DEF OpenInv, IInv, TypeOK, Pool
      <4>3. QED BY <3>2, <4>1, <4>2
    <3>6. QED BY <3>3, <3>4, <3>5
  <2>2. ASSUME NEW q \in quotes, SettleSolsToDeed(q)
        PROVE  NeverDrained'
    <3>1. ungated' = ungated
      BY <2>2 DEF SettleSolsToDeed, Settle
    <3>2. QED BY <2>2, <3>1, PurchaseLeavesSome DEF NeverDrained
  <2>3. CASE Stray
    <3>1. UNCHANGED pool /\ ungated'.added >= ungated.added /\ BooksInv'
      BY <2>3, BooksStray
    <3>2. ungated'.added = 0 => ungated.added = 0
      BY <3>1, PurseBounds
    <3>3. QED BY <3>1, <3>2 DEF NeverDrained, Backing, Circulating
  <2>4. CASE \/ Market \/ Prepare \/ Consolidate \/ UNCHANGED allVars
             \/ \E q \in quotes : GiveUp(q)
             \/ \E v, w \in Vault, deeds \in SUBSET Deed : SpendVault(v, deeds, w)
    <3>1. UNCHANGED <<pool, ungated>>
      <4>1. CASE Market
        BY <4>1, RestTypes DEF Market, coinVars, OpenInv, IInv
      <4>2. CASE Prepare
        <5>1. ASSUME NEW q, Issue(q) PROVE UNCHANGED <<pool, ungated>>
          BY <5>1 DEF Issue, vars, coinVars
        <5>2. ASSUME NEW v, NEW d, NEW to, NEW until, PrepareDeedToSols(v, d, to, until)
              PROVE  \E q : Issue(q)
          BY <5>2 DEF PrepareDeedToSols
        <5>3. ASSUME NEW v, NEW r, NEW coin, NEW until, PrepareSolsToDeed(v, r, coin, until)
              PROVE  \E q : Issue(q)
          BY <5>3 DEF PrepareSolsToDeed
        <5>4. QED BY <4>2, <5>1, <5>2, <5>3 DEF Prepare
      <4>3. QED BY <2>4, <4>1, <4>2
               DEF Consolidate, GiveUp, SpendVault, allVars, swapVars, coinVars, vars
    <3>2. QED BY <3>1 DEF NeverDrained, Backing, Circulating
  <2>5. QED BY <2>1, <2>2, <2>3, <2>4 DEF SwapNext, Stray
<1>3. QED BY <1>1, <1>2, MarketInvariance, PTL DEF SwapSpec
=============================================================================
