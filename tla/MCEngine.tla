------------------------------ MODULE MCEngine ------------------------------
(* A deal d to negotiate, three bids, one of them already superseded, and   *)
(* five auctions: none, open, and closed on a bid at a fair, a dear and a   *)
(* foreign price.  Two units make a minor unit's tolerance.                 *)
EXTENDS Engine, TLC

CONSTANTS d, b1, b2, b3, seller, USD, EUR, good, money

Usd(n) == [amount |-> n, currency |-> USD]
Eur(n) == [amount |-> n, currency |-> EUR]
MCCommitted == d :> Usd(8) @@ b1 :> Usd(8) @@ b2 :> Usd(6) @@ b3 :> NoMoney
MCParent == [c \in Commitments |-> None]
MCChildren == [c \in Commitments |-> {}]
MCInitially == [c \in Commitments |-> Plain(IF c = d THEN "Draft" ELSE "Tendered")]
MCFulfillments == [x \in {} |-> None]
MCForms == [c \in Commitments |-> IF c = b3 THEN {good} ELSE {money}]
MCOffer == d :> NoMoney @@ b1 :> Usd(7) @@ b2 :> Eur(6) @@ b3 :> Usd(6)

MCProfiles ==
  { [states |-> StateTypes \ {"Disputed"}, forms |-> {good, money}],
    [states |-> StateTypes \ {"Active"}, forms |-> {money, good}],
    [states |-> StateTypes, forms |-> {good, money}] }
MCBounds == { [floor |-> Usd(5), committed |-> NoMoney], [floor |-> Usd(5), committed |-> Usd(9)] }
MCPacks == { ("MA" :> {0, 20}) @@ ("FR" :> {10, 20}), ("MA" :> {20}) @@ ("FR" :> {20}) }

Auctioned(winner, price) == [bids |-> {b1, b2, b3}, winner |-> winner, price |-> price]
MCAuctions ==
  { [bids |-> {}, winner |-> None, price |-> NoMoney], Auctioned(None, NoMoney),
    Auctioned(b1, Usd(7)), Auctioned(b1, Usd(8)), Auctioned(b2, Usd(6)) }

To(c, t) == [type |-> "action", commitment |-> c, to |-> Plain(t), actor |-> seller]
Conceding(c, k, price) ==
  [type |-> "concession", commitment |-> c, kind |-> k, price |-> price, actor |-> seller]

Line(k, n, j, r) == [kind |-> k, amount |-> n, currency |-> USD, jurisdiction |-> j, rate |-> r]
Settling(n, parts) ==
  [type |-> "settlement", commitment |-> d, committedTotal |-> Usd(12),
   settlement |-> [total |-> Usd(n), components |-> parts]]

MCSettlements ==
  { Settling(12, <<Line("Base", 11, None, None), Line("Discount", -1, None, None),
                   Line("Tax", 2, "FR", 20)>>),
    Settling(11, <<Line("Base", 9, None, None), Line("Tax", 1, "MA", 20)>>),
    Settling(12, <<Line("Base", 10, None, None), Line("Tax", 2, "MA", None)>>),
    Settling(12, <<Line("Base", 10, None, None), Line("Tax", 1, "FR", 10)>>),
    Settling(12, <<Line("Base", 8, None, None), Line("Tax", 4, "FR", 20)>>),
    Settling(12, <<Line("Base", 12, None, None), Line("Tax", 3, "FR", 20)>>),
    Settling(15, <<Line("Base", 15, None, None)>>) }

MCEvents ==
  { Conceding(d, "offer", Usd(8)), Conceding(d, "counter", Usd(4)), Conceding(d, "counter", Usd(3)),
    Conceding(d, "accept", Usd(5)), Conceding(d, "accept", Eur(8)), Conceding(d, "offer", Usd(2)),
    Conceding(b2, "accept", Usd(6)), Conceding(b3, "accept", Usd(6)),
    To(d, "Active"), To(d, "Disputed"), To(d, "Cancelled"), 
    To(b1, "Accepted"), To(b1, "Cancelled"), To(b2, "Accepted"), To(b2, "Cancelled"),
    To(b1, "Modified"), To(b3, "Accepted"), To(b3, "Cancelled") }
  \cup MCSettlements
=============================================================================
