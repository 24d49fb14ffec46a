------------------------------ MODULE MCTools ------------------------------
(* The tools around the session, each at its own desk.  A behaviour picks a *)
(* desk and stays there, so that the desks are checked in one run without   *)
(* being multiplied with each other.                                        *)
EXTENDS Negotiation, Settlement, Split, Verifier, Migration, Interop, Authoring,
        PortAgents, Workflow, Grammar, Conformance, Coverage

CONSTANTS deal, order, east, west, plot, ghost, buyer, seller, USD, EUR, v1, v2, v3, w0, w1, w2, odd, n1, n2, f1,
          Desks   \* the desks of this run

VARIABLE desk

Usd(n) == [amount |-> n, currency |-> USD]
Eur(n) == [amount |-> n, currency |-> EUR]

-----------------------------------------------------------------------------
(* Negotiation: four units are a minor unit, the tolerance is two.          *)

MCCommitted == deal :> Usd(8) @@ order :> Usd(8) @@ east :> Usd(5) @@ west :> Usd(3) @@ plot :> NoMoney
MCParent == deal :> None @@ order :> None @@ east :> order @@ west :> order @@ plot :> None
MCChildren == deal :> {} @@ order :> {east, west} @@ east :> {} @@ west :> {} @@ plot :> {}
MCInitially ==
  deal :> Plain("Draft") @@ order :> Plain("PartiallyFulfilled") @@ east :> Plain("Fulfilled")
  @@ west :> Plain("Accepted") @@ plot :> Plain("Draft")
MCNone == [x \in {} |-> None]

\* The delivery of the part that is fulfilled is under way.
MCUnderWay == f1 :> [commitment |-> east, state |-> [type |-> "InProgress"], startedAt |-> 0]

\* Toolkits: an order of two parts, one of them delivered.
RefundOf(c, money, k) ==
  [commitment |-> c, to |-> [type |-> "Refunded", amount |-> money],
   actor |-> IF k = None THEN buyer ELSE seller, key |-> k]
MoveOf(c, t, k) == [commitment |-> c, to |-> Plain(t), actor |-> seller, key |-> k]
MCRequests ==
  { RefundOf(east, Usd(2), "r1"), RefundOf(east, Usd(3), None), RefundOf(east, Usd(5), "r1"),
    RefundOf(east, Eur(2), "r2"),
    RefundOf(east, Usd(6), None), RefundOf(east, Usd(4), "r4"), RefundOf(order, Usd(1), "r5"), RefundOf(order, Usd(4), None), RefundOf(order, Usd(8), "r3"),
    RefundOf(west, Usd(3), None), RefundOf(ghost, Usd(3), None),
    MoveOf(order, "Fulfilled", None), MoveOf(east, "Disputed", None), MoveOf(east, "Fulfilled", "f"),
    MoveOf(west, "PartiallyFulfilled", None), MoveOf(west, "Fulfilled", None),
    MoveOf(west, "Proposed", "f") }

MCLimits == [floor |-> Usd(5), committed |-> NoMoney]
MCPrices == {Usd(2), Usd(3), Usd(4), Usd(8), Usd(9), Eur(8)}

\* Settlement.
Line(k, n) == [kind |-> k, amount |-> n, currency |-> USD, jurisdiction |-> None, rate |-> None]
Breakdown(n, parts) == [total |-> Usd(n), components |-> parts]
MCDue == Usd(10)
MCPartials ==
  { Breakdown(n, <<Line("Base", n)>>) : n \in {1, 2, 3, 9, 10, 11} }
  \cup { Breakdown(4, <<Line("Base", 4), Line("Discount", -1), Line("Tax", 2)>>),
         Breakdown(4, <<Line("Base", 4), Line("Tax", 2)>>),
         [total |-> Eur(4), components |-> <<Line("Base", 4)>>] }

\* Split.
MCShares == {Usd(3), Usd(4), Usd(5), Usd(9), Eur(4), NoMoney}
MCWholes == {Usd(12), Usd(20), Usd(11), Usd(0), NoMoney}
MCWeightings == {<<1, 1, 1>>, <<1, 2, 3>>, <<3, 3, 1>>, <<0, 1, 1>>, <<5>>, <<2, 1>>, <<7, 0, 4>>,
                 <<>>, <<0, 0>>}

\* Verifier: five states of the model with every pair of edges added to their table.
Five == {"Draft", "Proposed", "Accepted", "Active", "Modified"}
MCTables ==
  { [s \in StateTypes |-> IF s \notin Five THEN {}
                          ELSE (CommitmentTransitions[s] \cap Five) \cup {t \in Five : <<s, t>> \in added}] :
    added \in {{}} \cup {{one, other} : one \in Five \X Five, other \in Five \X Five} }

\* Platforms: the built-in shop profile; a refund before delivery; an unreachable illegal
\* move; two names for one state, a state that is not mapped, starts that must be found.
Shop(moves, maps, from) ==
  [states |-> <<"pending", "paid", "shipped", "refunded", "failed">>,
   transitions |-> moves, mapping |-> maps, start |-> from]
Usual == [pending |-> "Proposed", paid |-> "Accepted", shipped |-> "Fulfilled",
          refunded |-> "Refunded", failed |-> "Cancelled"]
MCModels ==
  { Shop(moves, maps, from) :
      moves \in { {<<"pending", "paid">>, <<"pending", "failed">>, <<"paid", "shipped">>},
                  {<<"pending", "paid">>, <<"paid", "refunded">>, <<"refunded", "pending">>},
                  {<<"pending", "failed">>, <<"paid", "refunded">>, <<"shipped", "refunded">>},
                  {<<"paid", "failed">>, <<"failed", "pending">>} },
      maps \in {Usual, [Usual EXCEPT !.shipped = "PartiallyFulfilled"],
                [s \in {"pending", "paid", "refunded"} |-> Usual[s]],
                [Usual EXCEPT !.pending = "Accepted"]},
      from \in {None, "pending", "failed"} }

\* Migrations: three versions, worlds that a transform repairs, breaks or leaves.
Keep   == [w \in {w0, w1, w2, odd} |-> w]
Repair == [w \in {w0, w1, w2, odd} |-> IF w = w0 THEN w1 ELSE w2]
Break  == [w \in {w0, w1, w2, odd} |-> IF w = w1 THEN odd ELSE w2]
Hop(a, b, f) == [from |-> a, to |-> b, transform |-> f]
MCOffered ==
  { <<>>, <<Hop(v1, v2, Repair)>>, <<Hop(v1, v2, Keep), Hop(v2, v3, Repair)>>,
    <<Hop(v1, v2, Repair), Hop(v2, v3, Break)>>, <<Hop(v2, v3, Break), Hop(v1, v2, Repair)>>,
    <<Hop(v1, v2, Keep), Hop(v2, v1, Keep)>>, <<Hop(v1, v2, Keep), Hop(v1, v3, Keep)>>,
    <<Hop(v2, v3, Keep), Hop(v1, v2, Break), Hop(v3, v2, Repair)>>,
    <<Hop(v1, v2, Repair), Hop(v2, v3, Repair), Hop(v3, v1, Break)>> }

\* Sources.
MCSources == [money : {Usd(8), Usd(9), Usd(10), Eur(8), NoMoney}, sound : BOOLEAN]
MCBatches == UNION {[1..n -> MCSources] : n \in 0..3}

-----------------------------------------------------------------------------
(* Formulas: every tree of two operators over three leaves, calls included; plain       *)
(* numbers are in hundredths.                                                            *)

Leaves == {Var("committed"), NumberLit(200), MoneyLit(4, USD)}
Grown(S) ==
  {Binary(op, l, r) : op \in {"+", "-", "*", "/"}, l \in S, r \in S}
  \cup {Call("max", <<l, r>>) : l \in S, r \in S}
Small == {Var("committed"), NumberLit(200)} \cup Grown({Var("committed"), NumberLit(200)})
MCFormulas == Grown(Leaves) \cup Grown(Small)

-----------------------------------------------------------------------------
(* Documents.  The subject is worth 8 USD, once, or 4 and 4, or in two currencies.       *)

Field(k, v) == [key |-> k, value |-> v]
Policy(name, fields) == [kind |-> "policy", name |-> name, fields |-> fields]
Profile(name, fields) == [kind |-> "profile", name |-> name, fields |-> fields]
Half == Binary("*", Var("committed"), NumberLit(50))

Floors ==
  { MoneyLit(6, USD), Half, Binary("+", Half, MoneyLit(4, USD)), Binary("+", Half, MoneyLit(8, USD)),
    Binary("-", Var("committed"), MoneyLit(2, EUR)), NumberLit(600), Var("price"),
    Binary("/", Binary("*", Var("committed"), Var("remaining_days")), Var("term_days")),
    Binary("/", MoneyLit(8, USD), NumberLit(0)), Call("max", <<Var("committed"), MoneyLit(2, USD)>>),
    Binary("*", MoneyLit(4, USD), Var("quantity")) }
Openings == {MoneyLit(8, USD), MoneyLit(8, EUR), Var("committed"), Call("min", <<Var("committed"), Half>>)}
PriceFields ==
  { <<Field("concession_floor", f)>> : f \in Floors }
  \cup { <<Field("committed_price", o), Field("concession_floor", f)>> : f \in Floors, o \in Openings }
  \cup { <<Field("committed_price", MoneyLit(8, USD))>> }
OnlyPrices == { <<Policy("floor", fields)>> : fields \in PriceFields }

Storefront == Profile("shop", <<Field("value_forms", {"Money"}),
                          Field("states", {"Draft", "Proposed", "Accepted"})>>)
NoForms == Profile("shop", <<Field("states", {"Draft"})>>)
Narrowing == Policy("narrow", <<Field("applies_to", "shop"), Field("forbid_states", {"Accepted"}),
                                Field("assert", {"I1", "I6"})>>)
Loose == Policy("narrow", <<Field("forbid_states", {"Accepted"})>>)
Twice == Policy("narrow", <<Field("applies_to", "shop"), Field("applies_to", "shop")>>)
Taxed(js) == Policy("taxed", [i \in DOMAIN js |->
                 Field("tax_rates", [jurisdiction |-> js[i], rates |-> {10 * i}])])
Cheap == Policy("cheap", <<Field("concession_floor", Half)>>)

Life(states, edges) == [kind |-> "lifecycle", name |-> "life", states |-> states, edges |-> edges]
Edge(a, b) == [from |-> a, to |-> b]
Lives ==
  { Life(<<"Draft", "Proposed", "Accepted">>, <<Edge("Draft", <<"Proposed">>)>>),
    Life(<<"Draft", "Proposed">>, <<Edge("Draft", <<"Proposed">>), Edge("Draft", <<"Draft">>)>>),
    Life(<<"Draft", "Proposed">>, <<Edge("Draft", <<"Proposed", "Proposed">>)>>),
    Life(<<"Draft", "Proposed">>, <<>>), Life(<<"Draft", "Sold">>, <<>>) }

SaleFields == <<Field("subject", "s"), Field("seller", "p"), Field("opens_at", "t"), Field("closes_at", "u")>>
Tender(id) == [id |-> id, fields |-> <<Field("offer", Usd(4)), Field("closes_at", "u")>>]
Mechanism(k, fields) == [kind |-> k, fields |-> fields]
State(t, fields) == [type |-> t, fields |-> fields]
Sale(mechanism, tenders, state) ==
  [kind |-> "auction", name |-> "sale", fields |-> SaleFields, mechanism |-> mechanism,
   tenders |-> tenders, state |-> state]
English == Mechanism("English", <<Field("reserve_price", Usd(2))>>)
Won(by) == State("Closed", <<Field("reason", "NormalClose"), Field("winner", by), Field("winning_price", Usd(4))>>)
Sales ==
  { Sale(English, <<Tender("b1"), Tender("b2")>>, Won("b1")),
    Sale(English, <<Tender("b1")>>, Won("b2")),
    Sale(English, <<Tender("b1"), Tender("b1")>>, State("Open", <<>>)),
    Sale(Mechanism("Dutch", <<Field("reserve_price", Usd(2))>>), <<>>, State("Open", <<>>)),
    Sale(Mechanism("Vickrey", <<>>), <<>>, State("Open", <<Field("reason", "NormalClose")>>)) }

Leg(name, e) == [name |-> name, amount |-> e]
Trip(parts) == [kind |-> "composition", name |-> "trip", fields |-> <<>>, legs |-> parts]
Trips == { Trip(<<Leg("flight", Half), Leg("hotel", Half)>>), Trip(<<Leg("flight", Half), Leg("flight", Half)>>),
           Trip(<<Leg("flight", Half), Leg("days", Var("term_days"))>>), Trip(<<>>),
           Trip(<<Leg("flight", Var("price"))>>) }

MCDocuments ==
  OnlyPrices
  \cup { <<a, b, Taxed(js)>> : a \in {Storefront, NoForms}, b \in {Narrowing, Loose, Twice},
                               js \in {<<"MA">>, <<"MA", "FR">>, <<"MA", "MA">>} }
  \cup { <<Narrowing, Storefront, l>> : l \in Lives } \cup { <<s, Cheap>> : s \in Sales }
  \cup { <<t, Narrowing, Cheap, Storefront>> : t \in Trips }
  \cup { <<Storefront, Narrowing, Storefront>>, <<Storefront, Profile("web", Storefront.fields), Cheap, Narrowing>>, <<Narrowing>>,
         <<Cheap, Narrowing, Storefront, Cheap>> }
MCOptions == { NoOptions, [NoOptions EXCEPT !.profile = "shop"] }

Requested(money) == [money |-> money, quantity |-> 1]
MCSubjects ==
  { [requested |-> <<Requested(Usd(8))>>, created |-> 0, endsAt |-> 9, now |-> 5],
    [requested |-> <<Requested(Usd(4)), Requested(NoMoney), Requested(Usd(4))>>, created |-> 0,
     endsAt |-> None, now |-> None],
    [requested |-> <<Requested(Usd(4)), Requested(Eur(4))>>, created |-> 4, endsAt |-> 2, now |-> 6] }
MCOffers == {Usd(2), Usd(4), Usd(8), Eur(8)}

-----------------------------------------------------------------------------
(* Workflows: three nodes in every order, and longer ones behind a trigger and a profile. *)

Setting(k, v) == [key |-> k, value |-> v]
Word(s) == [kind |-> "text", text |-> s]
Ref(i) == [kind |-> "ref", instance |-> i]
Price(n, code) == [kind |-> "currency", amount |-> n, code |-> code]
Object(entries) == [kind |-> "object", entries |-> entries]
Node(t, name, config) == [type |-> t, name |-> name, config |-> config]
Cart(name, span) == Node("CartAbandoned", name, <<Setting("min_value", Price(2, "MAD")),
                         Setting("after", [kind |-> "duration", amount |-> 3, unit |-> span])>>)
Placed(name, price, rest) == Node("OrderPlaced", name, <<Setting("min_value", price)>> \o rest)
Lookup(from) == Node("ACPGetCustomerProfile", "profile", <<Setting("customer_id", Ref(from))>>)
Send(name, rest) == Node("WhatsAppSend", name,
                         <<Setting("to", Ref("profile")), Setting("template", Word("t"))>> \o rest)
Pause(name, state) == Node("DelayFor", name,
    <<Setting("duration", [kind |-> "duration", amount |-> 3, unit |-> "hours"])>>
    \o (IF state = None THEN <<>> ELSE <<Setting("state", Word(state))>>))
FirstNodes == {Cart("trigger", "minutes"), Cart("cart", "hours"), Cart("cart", "days"), Pause("wait", None)}
LaterNodes ==
  { Lookup("trigger"), Lookup("cart"),
    Placed("ordered", Price(5, "MAD"), <<>>), Placed("ordered", Price(5, "USD"), <<>>),
    Placed("second", Price(7, "MAD"), <<Setting("state", Word("Accepted"))>>),
    Placed("second", Price(4, "MAD"), <<Setting("rates", Object(<<Setting("from", Price(1, "MAD")), Setting("to", Price(2, "EUR"))>>))>>),
    Placed("second", Price(4, "MAD"), <<Setting("cap", Price(9, "EUR"))>>),
    Send("message", <<>>), Send("message", <<Setting("lang", Ref("profile"))>>),
    Send("profile", <<Setting("lang", Ref("trigger"))>>),
    Send("message", <<Setting("params", Object(<<Setting("who", Ref("later"))>>))>>),
    Send("later", <<Setting("params", Object(<<Setting("who", Ref("message"))>>)), Setting("lang", Word("darija"))>>),
    Pause("wait", "Fulfilled"), Pause("pause", "Refunded"), Pause("again", "Accepted"),
    Node("Unheard", "odd", <<>>),
    Node("ABTestRoute", "route", <<Setting("customer_id", Ref("profile"))>>),
    Node("CustomerSegment", "segment", <<Setting("customer_ids", Word("all")), Setting("criteria", Word("any"))>>) }
MCProjects ==
  { <<a, b>> : a \in FirstNodes, b \in LaterNodes }
  \cup { <<a, b, c>> : a \in {Cart("trigger", "minutes")}, b \in LaterNodes, c \in LaterNodes }
  \cup { <<Cart("cart", "hours"), Lookup("cart"), b, c>> : b \in LaterNodes, c \in LaterNodes }
  \cup { <<Lookup("trigger")>>, <<>> }

-----------------------------------------------------------------------------
(* Files: every kind of block, each on a line, word by word, or as one would write it.   *)

Words(ws) == [i \in DOMAIN ws |-> Token("ident", ws[i])]
Punct(t, w) == <<Token(t, w)>>
Text(s) == <<Token("string", s)>>
Listed(a, b) == a \o Comma \o b
Sum(n, cur) == <<Token("number", n), Token("ident", cur)>>
Braces(inside) == LBrace \o inside \o RBrace

Row(words) == [words |-> words, note |-> None]
\* The words broken into lines after the places in cuts.
Broken(words, cuts) ==
  LET ends == SelectSeq([i \in DOMAIN words |-> i], LAMBDA i : i \in cuts \cup {Len(words)})
  IN [i \in DOMAIN ends |-> Row(SubSeq(words, IF i = 1 THEN 1 ELSE ends[i - 1] + 1, ends[i]))]

LifeText(grouped) ==
  LET arrow == Words(<<"Draft">>) \o Punct("arrow", "->") \o Listed(Words(<<"Proposed">>), Words(<<"Draft">>))
      last == Words(<<"state", "Proposed">>)
  IN Words(<<"lifecycle", "life">>)
       \o Braces(Words(<<"state", "Draft">>) \o IF grouped THEN last \o arrow ELSE arrow \o last)
ProfileText ==
  Words(<<"profile", "shop">>)
    \o Braces(Words(<<"label">>) \o Text("Shop") \o Words(<<"states">>) \o Listed(Words(<<"Draft">>), Words(<<"Active">>)))
PolicyText ==
  Words(<<"policy", "taxed">>)
    \o Braces(Words(<<"label">>) \o Text("Taxed") \o Words(<<"tax_rates">>) \o Text("MA")
               \o Listed(Punct("number", 20), Punct("number", 10))
               \o Words(<<"concession_floor", "committed">>) \o Punct("op", "*") \o Punct("number", 50))
TenderText(fields) == Words(<<"tender">>) \o Text("b1") \o Braces(fields)
Offer == Words(<<"offer">>) \o Sum(4, USD)
AuctionText(inside) == Words(<<"auction">>) \o Text("sale") \o Braces(Words(<<"seller">>) \o Text("p") \o inside)
TripText(e) ==
  Words(<<"composition", "trip">>)
    \o Braces(Words(<<"label">>) \o Text("Trip")
               \o Words(<<"leg", "flight">>) \o Braces(Words(<<"amount">>) \o e)
               \o Words(<<"leg", "hotel">>) \o Braces(<<>>))
English_ == Words(<<"mechanism", "English">>)
AuctionTexts ==
  { AuctionText(TenderText(Offer) \o Words(<<"state", "Open">>)),
    AuctionText(TenderText(Offer \o Words(<<"superseded_by">>) \o Text("b2"))),
    AuctionText(English_ \o Braces(Words(<<"criterion">>) \o Text("price") \o Punct("number", 60) \o Punct("number", 100)
                                   \o Words(<<"publication_required", "true">>))),
    AuctionText(English_ \o English_), AuctionText(Words(<<"toString">>)), AuctionText(Words(<<"price">>)) }
Texts == { LifeText(TRUE), LifeText(FALSE), ProfileText, PolicyText \o LifeText(TRUE),
           TripText(Words(<<"committed">>)), TripText(Open \o Words(<<"committed">>) \o Close) }
         \cup AuctionTexts
\* A new line at every brace and before the words that start an item.
Usually(words) ==
  {i \in 1..Len(words) - 1 :
     \/ words[i].type = "lbrace"
     \/ words[i + 1].type = "rbrace"
     \/ words[i + 1].type = "ident" /\ words[i + 1].word \in {"state", "leg", "tender", "mechanism"}}
MCPages == UNION {{Broken(t, {}), Broken(t, Usually(t)), Broken(t, 1..Len(t) - 1)} : t \in Texts}

-----------------------------------------------------------------------------
(* Builder and adapters.                                                                  *)

MCTotals == {Usd(8), Usd(6), NoMoney}
MCUnstated == Usd(0)
MCGoods == {[price |-> Usd(4), quantity |-> 2], [price |-> Eur(4), quantity |-> 1]}
MCPayments == {Usd(4)}

-----------------------------------------------------------------------------
(* Bridge: every word of every protocol on one order's line, refunds in minor units of    *)
(* either currency, moves stated outright, and deliveries that started early.             *)

Said(protocol, object, moves, id, minor, cur) ==
  {[protocol |-> protocol,
    action |-> [shape |-> protocol, object |-> object, move |-> m, id |-> id, currency |-> cur,
                minor |-> minor, actor |-> seller]] : m \in moves}
MCCalls ==
  Said("acp", "checkout_session", {"ready_for_payment", "completed", "canceled", "in_progress"}, deal, None, USD)
  \cup Said("acp", "order", {"confirmed", "shipped"}, plot, None, USD)
  \cup Said("acp", "order", {"fulfilled", "refunded"}, order, None, USD)
  \cup UNION {Said("acp", "order", {"refunded"}, order, n, USD) : n \in {1, 3}}
  \cup Said("ucp", "cart", {"checkout", "add_item"}, plot, None, USD)
  \cup Said("ucp", "order", {"place_order", "update_item", "cancel", "checkout"}, west, None, USD)
  \cup Said("ap2", "mandate", {"authorize", "capture"}, deal, 2, USD)
  \cup UNION {Said("ap2", "mandate", {"refund"}, east, n, cur) : n \in {1, 2}, cur \in {USD, EUR}}
  \cup Said("ap2", "mandate", {"refund"}, ghost, 1, USD)
  \cup {[c EXCEPT !.protocol = "ucp"] : c \in Said("acp", "order", {"canceled"}, deal, None, USD)}
MCProposals ==
  { RefundOf(order, Usd(10), None), RefundOf(order, Usd(9), None), RefundOf(east, Usd(5), None),
    MoveOf(deal, "Proposed", None), MoveOf(deal, "Accepted", None),
    MoveOf(plot, "Accepted", None), MoveOf(east, "Disputed", None) }
Delivery(state) == [commitment |-> deal, state |-> [type |-> state], startedAt |-> 0]
MCDeliveries == {f1 :> Delivery("Failed"), [x \in {f1, n1} |-> Delivery("InProgress")]}
MCMinorPerUnit == USD :> 100 @@ EUR :> 1000

-----------------------------------------------------------------------------
(* Conformance: worlds in which one commitment is not as it should be.                    *)

Sane == [c \in Commitments |-> Synthesized(MCInitially[c], buyer)]
Repaid(money) == [type |-> "Refunded", amount |-> money]
Move(a, b, at) == [from |-> Plain(a), to |-> Plain(b), at |-> at, actor |-> buyer]
Lived(state, entries) == [state |-> state, history |-> entries]
AcceptedLate(b) == Lived(Plain("Accepted"), <<Move("Draft", "Proposed", 0), Move("Proposed", "Accepted", b)>>)
OddWorlds ==
  {Sane} \cup {[Sane EXCEPT ![east] = Synthesized(Repaid(Usd(n)), buyer)] : n \in {5, 6, 7}}
  \cup {[Sane EXCEPT ![east] = Synthesized(Repaid(Eur(9)), buyer)],
        [Sane EXCEPT ![deal] = Lived(Plain("Accepted"), <<Move("Draft", "Accepted", 0)>>)],
        [Sane EXCEPT ![deal] = Lived(Plain("Accepted"), <<Move("Draft", "Proposed", 2), Move("Proposed", "Accepted", 1)>>)],
        [Sane EXCEPT ![deal] = Lived(Plain("Accepted"), <<>>)],
        [Sane EXCEPT ![plot] = AcceptedLate(0)],
        [Sane EXCEPT ![plot] = Lived(Plain("Cancelled"), <<Move("Draft", "Proposed", 0), Move("Proposed", "Accepted", 0), Move("Accepted", "Cancelled", 0)>>)]}
  \cup {[Sane EXCEPT ![deal] = AcceptedLate(at)] : at \in {0, 1}}
Scene(w, f) == [kind |-> "scene", payload |-> [world |-> w, fulfillments |-> f]]
Walk(primitive, from, walk) ==
  [kind |-> "transition-sequence", payload |-> [primitive |-> primitive, initial |-> from, steps |-> walk]]
Allowed(to) == [to |-> to, expect |-> "accept"]
Stopped(to) == [to |-> to, expect |-> "reject"]
Fixtures ==
  {Scene(w, f) : w \in OddWorlds, f \in {MCNone, f1 :> Delivery("Planned"), f1 :> Delivery("InProgress")}}
  \cup { Walk("commitment", Plain("Draft"), <<Allowed(Plain("Proposed")), Stopped(Plain("Fulfilled")), last>>) :
           last \in {Allowed(Plain("Accepted")), Stopped(Plain("Accepted")), Allowed(Plain("Draft"))} }
  \cup { Walk("fulfillment", [type |-> "Failed", recoverable |-> again], <<last>>) :
           again \in BOOLEAN, last \in {Allowed(Stage("Planned")), Stopped(Stage("Planned")), Stopped(Stage("Completed"))} }
  \cup { [kind |-> "money-breakdown", payload |-> b] : b \in MCPartials }
Entries ==
  { [fixture |-> x, expect |-> "accept", rule |-> None] : x \in Fixtures }
  \cup { [fixture |-> x, expect |-> "reject", rule |-> r] :
           x \in {y \in Fixtures : y.kind = "scene"}, r \in {None, "I-1", "I-2", "I-3", "I-4"} }
  \cup { [fixture |-> x, expect |-> "reject", rule |-> "money_breakdown_sum"] :
           x \in {y \in Fixtures : y.kind = "money-breakdown"} }
MCManifests == {<<e>> : e \in Entries} \cup {<<[fixture |-> Scene(Sane, MCNone), expect |-> "accept", rule |-> None], e>> : e \in Entries}

-----------------------------------------------------------------------------
(* Coverage: every file of three lines, two levels deep, three in a function and branch. *)

MCNewLines ==
  [kind : {"function", "block", "branch", "tested", "guard", "sink", "alias"}, depth : 0..1]
  \cup [kind : {"guard", "sink"}, depth : {2}]
MCOutlines ==
  { <<>>, <<[kind |-> "function", depth |-> 0], [kind |-> "branch", depth |-> 1]>> }

-----------------------------------------------------------------------------

deskVars == <<negotiationVars, settlementVars, splitVars, platformVars, migrationVars, interopVars,
              formulaVars, authoringVars, rust, golang, python, answer, records, workflowVars, adapterVars, builderVars, grammarVars, protocolVars,
              conformanceVars, coverageVars>>

NegotiationIdle ==
  standing = Opening /\ conceded = 0 /\ steps = 0 /\ tabled = <<>>
SplitIdle == whole = NoMoney /\ weights = <<>> /\ children = <<>> /\ tally = 0 /\ refused = FALSE
SearchIdle ==
  SearchFrom([s \in StateTypes |-> {}], "Draft", None)
  /\ platform = None
MigrationIdle ==
  /\ migrations = <<>> /\ source = Absent /\ target = Absent /\ original = w1
  /\ stage = "order" /\ cursor = Absent /\ chain = <<>> /\ done = 0 /\ current = w1
InteropIdle == sources = <<>> /\ conserves = <<>> /\ merged = "open"

FormulaIdle == formula = MoneyLit(4, USD) /\ text = <<>> /\ reread = Read(formula, <<>>)
AuthoringIdle ==
  /\ doc = <<>> /\ options = NoOptions /\ subject = [requested |-> <<>>]
  /\ lint = Pending /\ system = Pending /\ artifact = Pending /\ resolved = Pending
  /\ legs = Pending /\ sold = NoMoney

AdaptersIdle ==
  /\ remote = [platform |-> "paypal", refund |-> NoMoney] /\ imported = None /\ shipment = None /\ shown = 0 /\ steady = FALSE
  /\ fresh = FALSE /\ imports = 0 /\ emitted = <<>>

CoverageIdle ==
  /\ outline = <<>> /\ allowed = {} /\ statement = NoReport /\ ended = NotRun
  /\ settings = [failUnder |-> 100, onUnanalyzable |-> "warn", elsewhere |-> 0]

ToolsInit ==
  /\ desk \in Desks
  /\ PortAgentsInit
  /\ NegotiationIdle
  /\ SettlementInit
  /\ WorkflowInit
  /\ BuilderInit
  /\ ProtocolsInit /\ (desk # "bridge" => deliveries[f1].state.type = "Failed")
  /\ IF desk = "conformance" THEN ConformanceInit ELSE manifest = <<>> /\ results = <<>> /\ suiteExit = None
  /\ IF desk = "coverage" THEN CoverageInit ELSE CoverageIdle
  /\ IF desk = "split" THEN SplitInit ELSE SplitIdle
  /\ CASE desk = "verifier" -> VerifierInit /\ platform = None
       [] desk = "platforms" -> PlatformInit
       [] OTHER -> SearchIdle
  /\ IF desk = "migration" THEN MigrationInit ELSE MigrationIdle
  /\ IF desk = "interop" THEN InteropInit ELSE InteropIdle
  /\ IF desk = "formulas" THEN FormulaInit ELSE FormulaIdle
  /\ IF desk = "authoring" THEN AuthoringInit ELSE AuthoringIdle
  /\ IF desk = "adapters" THEN AdaptersInit ELSE AdaptersIdle
  /\ IF desk = "grammar" THEN GrammarInit ELSE page = <<>> /\ edits = 0

OtherDesks(mine) ==
  /\ mine \notin {"negotiation", "toolkits"} => UNCHANGED vars
  /\ mine # "negotiation" => UNCHANGED <<standing, conceded, steps, tabled>>
  /\ mine # "toolkits" => UNCHANGED <<rust, golang, python, answer, records>>
  /\ mine # "settlement" => UNCHANGED settlementVars
  /\ mine # "split" => UNCHANGED splitVars
  /\ mine \notin {"verifier", "platforms"} => UNCHANGED platformVars
  /\ mine # "migration" => UNCHANGED migrationVars
  /\ mine # "interop" => UNCHANGED interopVars
  /\ mine # "formulas" => UNCHANGED formulaVars
  /\ mine # "authoring" => UNCHANGED authoringVars
  /\ mine # "workflow" => UNCHANGED workflowVars
  /\ mine # "adapters" => UNCHANGED adapterVars
  /\ mine # "builder" => UNCHANGED builderVars
  /\ mine # "grammar" => UNCHANGED grammarVars
  /\ mine # "bridge" => UNCHANGED protocolVars
  /\ mine # "conformance" => UNCHANGED conformanceVars
  /\ mine # "coverage" => UNCHANGED coverageVars

NegotiationDesk == desk = "negotiation" /\ NegotiationNext /\ OtherDesks("negotiation")
ToolkitsDesk    == desk = "toolkits" /\ PortAgentsNext /\ OtherDesks("toolkits")
SettlementDesk  == desk = "settlement" /\ SettlementNext /\ OtherDesks("settlement")
SplitDesk       == desk = "split" /\ SplitNext /\ OtherDesks("split")
SearchDesk      == desk \in {"verifier", "platforms"} /\ PlatformNext /\ OtherDesks("verifier")
MigrationDesk   == desk = "migration" /\ MigrationNext /\ OtherDesks("migration")
InteropDesk     == desk = "interop" /\ InteropNext /\ OtherDesks("interop")
FormulaDesk     == desk = "formulas" /\ FormulaNext /\ OtherDesks("formulas")
AuthoringDesk   == desk = "authoring" /\ AuthoringNext /\ OtherDesks("authoring")
AdaptersDesk    == desk = "adapters" /\ AdaptersNext /\ OtherDesks("adapters")
GrammarDesk     == desk = "grammar" /\ GrammarNext /\ OtherDesks("grammar")
BridgeDesk      == desk = "bridge" /\ ProtocolsNext /\ OtherDesks("bridge")
SuiteDesk       == desk = "conformance" /\ ConformanceNext /\ OtherDesks("conformance")
CoverageDesk    == desk = "coverage" /\ CoverageNext /\ OtherDesks("coverage")
BuilderDesk     == desk = "builder" /\ BuilderNext /\ OtherDesks("builder")

WorkflowDesk    == desk = "workflow" /\ WorkflowNext /\ OtherDesks("workflow")
CompilerDesk    == desk = "workflow" /\ Compiling /\ OtherDesks("workflow")

\* The tools that loop over their input.
Looping == SearchDesk \/ MigrationDesk \/ InteropDesk \/ CompilerDesk

ToolsNext ==
  (NegotiationDesk \/ SettlementDesk \/ SplitDesk \/ Looping \/ FormulaDesk \/ AuthoringDesk
   \/ ToolkitsDesk \/ WorkflowDesk \/ AdaptersDesk \/ BuilderDesk \/ GrammarDesk \/ BridgeDesk
   \/ SuiteDesk \/ CoverageDesk)
  /\ UNCHANGED desk

ToolsSpec ==
  ToolsInit /\ [][ToolsNext]_<<deskVars, desk>> /\ WF_<<deskVars, desk>>(Looping /\ UNCHANGED desk)

\* The language is faithful.  Formatting keeps the meaning of every formula and of every
\* file, and every comment; a formula of a document is worth what the literal it derives
\* would be; no rule is lost before the host; what the linter passes the next stage accepts.
LanguageIsFaithful ==
  /\ FormatKeepsMeaning /\ FilesKeep
  /\ DerivedIsLiteral /\ NoRuleLost /\ LintIsSound

\* A tool that loops over its input returns, whatever cycles the input has: the search
\* of a table, the resolution and application of migrations, the pass over sources, the compilation
\* of an answer.
ToolsReturn ==
  /\ desk \in {"verifier", "platforms"} ~> Explored
  /\ desk = "migration" ~> MigrationEnded
  /\ desk = "interop" ~> merged # "open"
  /\ pass \in {"checking", "lowering"} ~> pass \notin {"checking", "lowering"}
=============================================================================
