---------------------------- MODULE MCRedemption ----------------------------
(***************************************************************************)
(* A small instance of Redemption: a settlement of both deeds whose total  *)
(* leaves a rest, one of a single deed, and a draft that does not add up.  *)
(***************************************************************************)
EXTENDS Redemption

CONSTANTS v1, v2, d1, d2, d3, b1, e1

Keys == [k \in {b1, e1} |-> IF k = b1 THEN "bls" ELSE "secp"]
FirstKeys == [v \in {v1, v2} |-> b1]
Holders == [d \in {d1, d2} |-> v1]
Ranks == [d \in {d1, d2, d3} |-> CASE d = d1 -> 1 [] d = d2 -> 2 [] OTHER -> 3]

OfBoth == [total |-> 3, share |-> [d \in {d1, d2} |-> 5]]
OfOne == [total |-> 2, share |-> [d \in {d1} |-> 10]]

\* The last one is not drafted by the driver: its payments are one short.
MCPlan ==
  {BuildPlan(OfBoth), BuildPlan(OfOne),
   [total |-> 3, share |-> [d \in {d1, d2} |-> 5], amount |-> [d \in {d1, d2} |-> 1]]}

MCAsked ==
  [vault : {v1}, message :
    {[op |-> "d", deed |-> d1, plan |-> BuildPlan(OfBoth)],
     [op |-> "d", deed |-> d1, plan |-> BuildPlan(OfOne)],
     [op |-> "s", deeds |-> {}], [op |-> "s", deeds |-> {d1}],
     [op |-> "m", deed |-> d1, to |-> v2],
     [op |-> "k", owner |-> e1, auth |-> "secp", members |-> {e1}],
     [op |-> "k", owner |-> e1, auth |-> "bls", members |-> {e1}]}]
  \cup
  [vault : {v2}, message : {[op |-> "z"], [op |-> "v"], [op |-> "o", deed |-> d1],
                            [op |-> "i", deed |-> d1]}]

\* allocate_settlement against what it promises, for every settlement of up to 12
\* units and three deeds: it pays out the total, each share rounded down or up, and
\* up only where no larger remainder was rounded down.
Fair(total, share) ==
  LET amount == AllocateSettlement(total, share)
      floor(d) == (total * share[d]) \div ShareDenominator
      rest(d) == (total * share[d]) % ShareDenominator
  IN /\ SumFunction(amount) = total
     /\ \A d \in DOMAIN share : amount[d] - floor(d) \in {0, 1}
     /\ \A d, e \in DOMAIN share :
          (amount[d] > floor(d) /\ amount[e] = floor(e)) => rest(d) >= rest(e)

ASSUME AllocationIsFair ==
  \A total \in 1 .. 12, share \in [{d1, d2, d3} -> 1 .. ShareDenominator] :
    SumFunction(share) = ShareDenominator => Fair(total, share)
=============================================================================
