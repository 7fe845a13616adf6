------------------------------ MODULE Exchange ------------------------------
(***************************************************************************)
(* What a primary purchase promises its buyer and its seller: each trade   *)
(* is paid and then delivered or refunded, never both and never neither    *)
(* once it is settled, and an item is delivered in one trade at most.      *)
(***************************************************************************)
EXTENDS Integers

CONSTANTS
  Trade,  \* the trades offered
  Item    \* what each trade is about

VARIABLES
  stage   \* how far each trade has come

Stages == {"open", "paid", "delivered", "refunded"}

\* The trades of B settle together; their items are distinct and none has gone.
CanDeliver(B) ==
  /\ \A t \in B : stage[t] \in {"open", "paid"}
  /\ \A t \in B, u \in Trade :
       Item[t] = Item[u] /\ t # u => u \notin B /\ stage[u] # "delivered"

Init == stage = [t \in Trade |-> "open"]

Pay(t) == stage[t] = "open" /\ stage' = [stage EXCEPT ![t] = "paid"]

Deliver(B) ==
  /\ stage' = [t \in Trade |-> IF t \in B THEN "delivered" ELSE stage[t]]
  /\ CanDeliver(B)

Refund(t) == stage[t] = "paid" /\ stage' = [stage EXCEPT ![t] = "refunded"]

\* The trades a step is about are those it moves on.
Moved == {t \in Trade : stage'[t] # stage[t]}

Next ==
  \/ \E t \in Moved : Pay(t) \/ Refund(t)
  \/ \E B \in SUBSET Moved : Deliver(B)

Spec == Init /\ [][Next]_stage
=============================================================================
