----------------------------- MODULE MCRuntime -----------------------------
(* A split order without a price of its own, with a part in each of two       *)
(* currencies: a live run refunds the parts, a later replay takes the same    *)
(* actions at later instants.                                                 *)
EXTENDS Runtime, TLC

CONSTANTS o, x, y, agent, USD, EUR, f1

Usd(n) == [amount |-> n, currency |-> USD]
Eur(n) == [amount |-> n, currency |-> EUR]
MCCommitted == o :> NoMoney @@ x :> Usd(4) @@ y :> Eur(2)
MCParent == o :> None @@ x :> o @@ y :> o
MCChildren == o :> {x, y} @@ x :> {} @@ y :> {}
MCProposed == [c \in Commitments |-> Plain("Proposed")]
MCDelivered == o :> Plain("Accepted") @@ x :> Plain("PartiallyFulfilled") @@ y :> Plain("Fulfilled")

Refund(c, money, k) ==
  [commitment |-> c, to |-> [type |-> "Refunded", amount |-> money], actor |-> agent, key |-> k]
Move(c, t) == [commitment |-> c, to |-> Plain(t), actor |-> agent, key |-> None]

MCAccepting == {Move(x, "Accepted"), Move(x, "Active"), Move(y, "Cancelled")}
MCRefunding == {Move(x, "Fulfilled"), Refund(x, Usd(2), "r1"), Refund(x, Usd(2), "r2"),
                Refund(y, Eur(2), None)}

MCNoFulfillments == [f \in {} |-> None]
\* A delivery of x planned to start at instant 1.
MCScheduled == f1 :> [commitment |-> x, state |-> Plain("Planned"), startedAt |-> 1]
=============================================================================
