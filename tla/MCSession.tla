------------------------------ MODULE MCSession ------------------------------
(* A session, and the windowed cap in front of it.  A behaviour is at one of  *)
(* the two desks.  Four units make a minor unit, so Eps is 2.                 *)
EXTENDS Window, TLC

CONSTANTS o1, o2, w, v, q, ghost, seller, USD, EUR, MAD

VARIABLE desk

Priced(n, m) == [amount |-> n, currency |-> m]

\* One order with price tolerance and an unpriced one; a split order without a price, whose
\* parts are in two currencies.
MCCommitted ==
  o1 :> Priced(8, USD) @@ o2 :> NoMoney @@ w :> NoMoney @@ v :> Priced(18, MAD) @@ q :> Priced(6, EUR)
MCParent == o1 :> None @@ o2 :> None @@ w :> None @@ v :> w @@ q :> w
MCChildren == o1 :> {} @@ o2 :> {} @@ w :> {v, q} @@ v :> {} @@ q :> {}
MCInitially ==
  o1 :> Plain("PartiallyFulfilled") @@ o2 :> Plain("Proposed")
  @@ w :> Plain("Accepted") @@ v :> Plain("Fulfilled") @@ q :> Plain("Fulfilled")
MCFulfillments == [x \in {} |-> None]

Refund(c, n, m, k) ==
  [commitment |-> c, to |-> [type |-> "Refunded", amount |-> Priced(n, m)], actor |-> seller, key |-> k]
Move(c, t, k) == [commitment |-> c, to |-> Plain(t), actor |-> seller, key |-> k]

OrderRequests ==
  { Move(o1, "Fulfilled", None), Move(o1, "Fulfilled", "f2"),
    Move(o1, "Disputed", None), Move(o1, "Cancelled", None),
    Refund(o1, 4, USD, "r1"), Refund(o1, 4, USD, "r2"), Refund(o1, 5, USD, None),
    Refund(o1, 2, USD, None), Refund(o1, 9, USD, None), Refund(o1, 10, USD, None),
    Refund(o1, 4, EUR, "r3"), Refund(ghost, 4, USD, None),
    Move(o2, "Accepted", None), Move(o2, "Disputed", None), Refund(o2, 4, EUR, None) }

\* Slices of the part capped over a window: one in another currency, one that shares its
\* key with a move that is no refund.  And some of the other part.
WindowRequests ==
  { Refund(v, 2, MAD, "s1"), Refund(v, 4, MAD, "s2"), Refund(v, 4, MAD, "s3"), Refund(v, 6, MAD, None),
    Refund(v, 2, MAD, "d"), Move(v, "Disputed", "d"), Refund(v, 4, EUR, None), Refund(q, 4, EUR, None) }

MCRequests == OrderRequests \cup WindowRequests
MCCap == Priced(8, MAD)
MCWindows == {Time(2), Count(3)}

-----------------------------------------------------------------------------

SessionDesk == \E a \in OrderRequests : ProposeAnytime(a) /\ UNCHANGED <<window, refunds, admitted>>

\* Bound: of the split order the capped part is refunded first, so that it is the other
\* part that the tree tally clashes with.
CappedPartFirst == treeLedger'[w] # NoMoney => treeLedger'[w].currency = Cap.currency

WindowDesk == \E a \in WindowRequests : ProposeInWindow(a) /\ CappedPartFirst

DesksInit ==
  /\ desk \in {"session", "window"}
  /\ WindowInit
  /\ desk = "session" => window = Count(3)

DesksNext ==
  /\ \/ desk = "session" /\ SessionDesk
     \/ desk = "window" /\ WindowDesk
  /\ UNCHANGED desk

DesksSpec == DesksInit /\ [][DesksNext]_<<windowVars, desk>>
=============================================================================
