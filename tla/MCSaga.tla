------------------------------- MODULE MCSaga -------------------------------
(* A three-level tree: root p splits into a and b, a has the one child g; and *)
(* an unpriced order u beside it.                                             *)
EXTENDS PortSagas, TLC

CONSTANTS p, a, b, g, u, ghost, seller, USD

Usd(n) == [amount |-> n, currency |-> USD]
MCCommitted == p :> Usd(6) @@ a :> Usd(4) @@ b :> Usd(2) @@ g :> Usd(4) @@ u :> NoMoney
MCParent == p :> None @@ a :> p @@ b :> p @@ g :> a @@ u :> None
MCChildren == p :> {a, b} @@ a :> {g} @@ b :> {} @@ g :> {} @@ u :> {}
MCInitially ==
  p :> Plain("PartiallyFulfilled") @@ a :> Plain("Fulfilled") @@ b :> Plain("Modified")
  @@ g :> Plain("Fulfilled") @@ u :> Plain("PartiallyFulfilled")

Refund(c, n, k) ==
  [commitment |-> c, to |-> [type |-> "Refunded", amount |-> Usd(n)], actor |-> seller, key |-> k]
Move(c, t) == [commitment |-> c, to |-> Plain(t), actor |-> seller, key |-> None]

MCRequests ==
  { Move(p, "Fulfilled"), Move(p, "Disputed"), Refund(p, 3, <<"p1">>), Refund(p, 6, None),
    Move(a, "Disputed"), Refund(a, 2, <<"a1">>), Refund(a, 2, <<"a2">>), Refund(a, 4, None),
    Move(b, "Accepted"), Move(b, "Active"),
    Refund(g, 4, None), Refund(g, 1, None), Move(u, "Fulfilled"), Move(ghost, "Accepted") }

\* The step that opens a dispute on a is reversed by a refund of half the price.
MCCompensateWith ==
  [r \in MCRequests |-> IF r = Move(a, "Disputed") THEN Refund(a, 2, None).to ELSE None]

MCFulfillments == [x \in {} |-> None]

ASSUME CompensationKeysApart
ASSUME PricesFit /\ UniformTrees
=============================================================================
