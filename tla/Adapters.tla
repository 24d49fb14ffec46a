------------------------------ MODULE Adapters -------------------------------
(***************************************************************************)
(* The platform adapters and the emitters: an application maps a platform's *)
(* order - and the fulfillment or refund resource some platforms keep       *)
(* beside it - into the model, has the guard judge actions on it, and turns  *)
(* an accepted refund or cancellation into the platform's own call.         *)
(*                                                                         *)
(* What every mapping rests on comes first, history synthesis: a commitment *)
(* or a fulfillment known only in its final state is driven there along the *)
(* canonical path, each step reading the clock.  A step that is refused -   *)
(* the clock ran backwards - makes the whole path give way to the bare      *)
(* final state.                                                             *)
(*                                                                         *)
(* The platform is external: it carries the call out and changes its        *)
(* record.  Refunds are made in full; the running totals of partial ones    *)
(* are the Session's.                                                       *)
(***************************************************************************)
EXTENDS CommerceModel, Functions

FulfillmentTransitions ==
  [ Planned    |-> {"InProgress", "Failed"},
    InProgress |-> {"Completed", "Failed", "Reversed"},
    Completed  |-> {"Reversed"},
    Failed     |-> {},
    Reversed   |-> {} ]

\* A fulfillment's state; every failure an adapter reports is recoverable.
Stage(t) == [type |-> t, recoverable |-> t = "Failed"]

\* A failed fulfillment starts over only when the failure was recoverable.
IsValidFulfillmentTransition(from, to) ==
  IF from.type = "Failed" THEN to.type = "Planned" /\ from.recoverable
  ELSE to.type \in FulfillmentTransitions[from.type]

NewFulfillment(id) ==
  [commitment |-> id, state |-> Stage("Planned"), history |-> <<>>,
   startedAt |-> None, completedAt |-> None]

\* transitionFulfillment: None when it is refused.
FulfillmentMoved(f, to, actor, at) ==
  LET last == IF f.history = <<>> THEN at ELSE f.history[Len(f.history)].at
  IN IF ~IsValidFulfillmentTransition(f.state, to) \/ at < last
     THEN None
     ELSE [f EXCEPT !.state = to,
                    !.history = Append(@, [from |-> f.state, to |-> to, at |-> at, actor |-> actor]),
                    !.startedAt = IF to.type = "InProgress" /\ @ = None THEN at ELSE @,
                    !.completedAt = IF to.type = "Completed" THEN at ELSE @]

FulfillmentPath ==
  [ Planned    |-> <<>>,
    InProgress |-> <<"InProgress">>,
    Failed     |-> <<"Failed">>,
    Completed  |-> <<"InProgress", "Completed">>,
    Reversed   |-> <<"InProgress", "Reversed">> ]

\* x after n steps, None as soon as one of them is refused.
Driven(x, n, Step(_, _)) ==
  LET after[i \in 0..n] ==
        IF i = 0 THEN x ELSE IF after[i - 1] = None THEN None ELSE Step(after[i - 1], i)
  IN after[n]

Draft == [state |-> Plain("Draft"), history |-> <<>>]

\* Slip: the final state is set without its path.
ApplyBareState(target, actor, at) == [Draft EXCEPT !.state = target]

\* applyCommitmentPath on a fresh draft; at[i] is the clock's reading at step i.
ApplyCommitmentPath(target, actor, at) ==
  LET path == CommitmentPath[target.type]
      to(i) == IF i = Len(path) THEN target ELSE Plain(path[i])
      step(c, i) == IF TransitionOk(c, to(i), at[i]) THEN Transitioned(c, to(i), actor, at[i]) ELSE None
      driven == Driven(Draft, Len(path), step)
  IN IF driven = None THEN [Draft EXCEPT !.state = target] ELSE driven

BareFulfillment(id, target) == [NewFulfillment(id) EXCEPT !.state = Stage(target)]

ApplyFulfillmentPath(id, target, actor, at) ==
  LET step(f, i) == FulfillmentMoved(f, Stage(FulfillmentPath[target][i]), actor, at[i])
      driven == Driven(NewFulfillment(id), Len(FulfillmentPath[target]), step)
  IN IF driven = None THEN BareFulfillment(id, target) ELSE driven

\* The readings a synthesis may take, of a clock that an adjustment may set back.
Readings(n, instants) == [1..n -> instants]

RunsForward(at) == \A i \in 2..Len(at) : at[i] >= at[i - 1]

-----------------------------------------------------------------------------
(* The auditor over one commitment worth `money` and its fulfillments; the  *)
(* capacity check applies when the buyer is among the parties it is given.  *)

Overpays(money, refund) ==
  /\ refund.currency = money.currency /\ refund.amount > money.amount
  /\ ~MoneyEquals(refund.amount, money.amount)

AuditsClean(id, money, c, fulfillments) ==
  /\ c.state.type = "Refunded" => ~Overpays(money, c.state.amount)
  /\ CheckI2(c) /\ CheckI4(id, c, fulfillments)

-----------------------------------------------------------------------------
(* The adapters.                                                           *)

CONSTANTS
  OrderId,     \* the id of the order
  Adapter,     \* the actor of synthesized histories
  Instants,    \* what the clock may show
  Totals,      \* what a payload may state as its total: a Money, or NoMoney when left out
  Unstated,    \* what is committed then
  MaxImports   \* times the order is mapped

VARIABLES
  remote,     \* the platform's own: [platform, status, delivery, total, refund]
  imported,   \* the mapped order [money, commitment], or None
  shipment,   \* the mapped fulfillment, or None
  shown,      \* the clock's last reading
  steady,     \* the clock ran forward while the order was mapped
  fresh,      \* and on, while the fulfillment was mapped after it
  imports,    \* times the order was mapped
  emitted     \* the calls made, in order

Minor == 2 * Eps   \* a minor unit of the currency

adapterVars == <<remote, imported, shipment, shown, steady, fresh, imports, emitted>>

\* None is no commitment and no fulfillment.
ASSUME ImportsAssumption ==
  /\ Adapter \in Actors /\ Instants \subseteq Nat
  /\ Totals \subseteq Money \cup {NoMoney} /\ Unstated \in Money
  /\ None \notin Commitment
  /\ \A target \in DOMAIN FulfillmentPath : None # BareFulfillment(OrderId, target)

-----------------------------------------------------------------------------
(* orderState and intentState: what a platform's status word means.         *)

ShopifyState == [pending |-> "Proposed", paid |-> "Accepted", refunded |-> "Refunded",
                 voided |-> "Cancelled"]

WooState ==
  [s \in {"pending", "on-hold", "processing", "completed", "refunded", "cancelled", "failed"} |->
     CASE s \in {"pending", "on-hold"} -> "Proposed" [] s = "processing" -> "Accepted"
       [] s = "completed" -> "Fulfilled" [] s = "refunded" -> "Refunded" [] OTHER -> "Cancelled"]

StripeState ==
  [requires_payment_method |-> "Proposed", requires_confirmation |-> "Proposed",
   processing |-> "Proposed", succeeded |-> "Accepted", canceled |-> "Cancelled"]

PayPalState ==
  [CREATED |-> "Proposed", SAVED |-> "Proposed", APPROVED |-> "Proposed",
   PAYER_ACTION_REQUIRED |-> "Proposed", COMPLETED |-> "Accepted", VOIDED |-> "Cancelled"]

AmazonState ==
  [Pending |-> "Proposed", PendingAvailability |-> "Proposed", Unshipped |-> "Accepted",
   PartiallyShipped |-> "Accepted", InvoiceUnconfirmed |-> "Accepted", Shipped |-> "Fulfilled",
   Canceled |-> "Cancelled"]

StateOf == [shopify |-> ShopifyState, woocommerce |-> WooState, stripe |-> StripeState,
            paypal |-> PayPalState, amazon |-> AmazonState]

\* A Shopify order is Fulfilled, whatever its financial status, once it is delivered in
\* full: that is when its one fulfillment succeeded.
OrderState(r) ==
  IF r.platform = "shopify" /\ r.delivery = "success" THEN "Fulfilled"
  ELSE StateOf[r.platform][r.status]

\* What the order commits; PayPal and Amazon may leave the total out.
OrderMoney(r) == IF r.total = NoMoney THEN Unstated ELSE r.total

Target(type, money) == IF type = "Refunded" THEN [type |-> type, amount |-> money] ELSE Plain(type)

\* fromStripeAmount is exact; toStripeAmount rounds to the nearest minor unit.
ToStripeAmount(amount) == (2 * amount + Minor) \div (2 * Minor)

\* toShopifyOrderStatus: the word for a state, back again.
ToShopifyOrderStatus ==
  [Draft |-> "pending", Proposed |-> "pending", Tendered |-> "pending",
   Accepted |-> "paid", Active |-> "paid", Modified |-> "paid", PartiallyFulfilled |-> "paid",
   Fulfilled |-> "fulfilled", Refunded |-> "refunded", Cancelled |-> "voided", Disputed |-> "voided"]

FromFulfillmentStatus ==
  [success |-> "Completed", open |-> "InProgress", pending |-> "InProgress",
   failure |-> "Failed", cancelled |-> "Reversed"]

-----------------------------------------------------------------------------
(* Mapping.                                                                *)

Hold(money, target, at) ==
  /\ imports < MaxImports
  /\ imported' = [money |-> money, commitment |-> ApplyCommitmentPath(target, Adapter, at)]
  /\ shown' = IF at = <<>> THEN shown ELSE at[Len(at)]
  /\ imports' = imports + 1 /\ steady' = RunsForward(at) /\ fresh' = FALSE
  /\ UNCHANGED <<remote, shipment, emitted>>

FromOrder ==
  LET type == OrderState(remote)
  IN \E at \in Readings(Len(CommitmentPath[type]), Instants) :
       Hold(OrderMoney(remote), Target(type, OrderMoney(remote)), at)

\* fromPayPalRefund, fromAmazonRefund: the refund resource stands for the order it refunds,
\* which is taken to have committed what is refunded.
FromRefund ==
  /\ remote.platform \in {"paypal", "amazon"} /\ remote.refund # NoMoney
  /\ \E type \in IF remote.platform = "amazon" THEN {"Refunded"} ELSE {"Refunded", "Accepted"} :
       \E at \in Readings(Len(CommitmentPath[type]), Instants) :
         Hold(remote.refund, Target(type, remote.refund), at)

\* fromShopifyFulfillment.
FromFulfillment ==
  /\ remote.platform = "shopify" /\ remote.delivery # None /\ shipment = None
  /\ LET target == FromFulfillmentStatus[remote.delivery]
     IN \E at \in Readings(Len(FulfillmentPath[target]), Instants) :
          /\ shipment' = ApplyFulfillmentPath(OrderId, target, Adapter, at)
          /\ shown' = at[Len(at)]
          /\ fresh' = (imported # None /\ steady /\ RunsForward(<<shown>> \o at))
  /\ UNCHANGED <<remote, imported, steady, imports, emitted>>

-----------------------------------------------------------------------------
(* Acting: the guard audits the order together with its fulfillment.        *)

Deliveries == IF shipment = None THEN <<>> ELSE <<shipment>>

Moved(to, at) ==
  /\ imported # None /\ TransitionOk(imported.commitment, to, at)
  /\ LET moved == Transitioned(imported.commitment, to, Adapter, at)
     IN /\ AuditsClean(OrderId, imported.money, moved, Deliveries)
        /\ imported' = [imported EXCEPT !.commitment = moved]
  /\ shown' = at
  /\ UNCHANGED <<shipment, steady, fresh, imports>>

\* Moves the application makes on its own, without the platform.
MoveHeld ==
  /\ \E t \in {"Accepted", "PartiallyFulfilled", "Fulfilled"}, at \in Instants : Moved(Plain(t), at)
  /\ UNCHANGED <<remote, emitted>>

\* toStripeAction and its siblings: a refund or a cancellation has a call, nothing else has.
CallFor(p, to) ==
  [kind   |-> to.type,
   amount |-> IF to.type = "Cancelled" THEN 0
              ELSE IF p = "stripe" THEN ToStripeAmount(to.amount.amount) ELSE to.amount.amount]

\* The platform carries the call out: only Shopify's and WooCommerce's status words tell
\* a refund, PayPal and Amazon keep it beside the order.
CarriedOut(r, to) ==
  LET refunded == [shopify |-> "refunded", woocommerce |-> "refunded"]
      cancelled == [shopify |-> "voided", woocommerce |-> "cancelled", stripe |-> "canceled",
                    paypal |-> "VOIDED", amazon |-> "Canceled"]
  IN IF to.type = "Cancelled" THEN [r EXCEPT !.status = cancelled[r.platform]]
     ELSE [r EXCEPT !.refund = to.amount,
                    !.status = IF r.platform \in DOMAIN refunded THEN refunded[r.platform] ELSE @]

EmitAction ==
  \E to \in {Plain("Cancelled")} \cup
            {Target("Refunded", [imported.money EXCEPT !.amount = @ + n]) : n \in 0..Eps},
     at \in Instants :
    /\ Moved(to, at)
    /\ emitted' = Append(emitted, CallFor(remote.platform, to))
    /\ remote' = CarriedOut(remote, to)

Records ==
  UNION {{[platform |-> p, status |-> s, delivery |-> d, total |-> m, refund |-> NoMoney] :
            s \in DOMAIN StateOf[p],
            d \in IF p = "shopify" THEN DOMAIN FromFulfillmentStatus \cup {None} ELSE {None},
            m \in IF p \in {"paypal", "amazon"} THEN Totals ELSE Totals \ {NoMoney}} :
         p \in DOMAIN StateOf}

\* Stripe states its amounts in whole minor units.
AdaptersInit ==
  /\ remote \in Records
  /\ remote.platform = "stripe" => remote.total.amount % Minor = 0
  /\ imported = None /\ shipment = None /\ shown = 0 /\ steady = FALSE /\ fresh = FALSE
  /\ imports = 0 /\ emitted = <<>>

AdaptersNext == FromOrder \/ FromRefund \/ FromFulfillment \/ (imported # None /\ (MoveHeld \/ EmitAction))

AdaptersSpec == AdaptersInit /\ [][AdaptersNext]_adapterVars

-----------------------------------------------------------------------------
(* Properties.                                                             *)

\* An adapter's output passes the auditor: mapped on a clock that runs forward an order
\* has one unbroken history, and one accepted or later audits clean with its fulfillment
\* mapped after it.  (Mapped again after its fulfillment it is accepted anew, later than
\* the delivery started, and I-4 blocks every action on it.)
ImportsAudit ==
  imported # None =>
  /\ steady => UnbrokenHistory(imported.commitment)
  /\ fresh /\ imported.commitment.state.type \in AcceptedOrLater =>
       AuditsClean(OrderId, imported.money, imported.commitment, Deliveries)

\* Told back, a Shopify order has the status it was mapped from, or "fulfilled".
StatusSurvives ==
  remote.platform = "shopify" =>
    ToShopifyOrderStatus[OrderState(remote)] =
      IF remote.delivery = "success" THEN "fulfilled" ELSE remote.status

\* An order is refunded to the platform once as long as it is mapped once; mapped again,
\* only WooCommerce's status still tells that it was refunded.  A Stripe refund is at most
\* what was captured, in whole minor units, though the guard allows the tolerance.
RefundsReachOnce ==
  LET refunds == {i \in DOMAIN emitted : emitted[i].kind = "Refunded"}
  IN /\ imports = 1 \/ remote.platform = "woocommerce" => Cardinality(refunds) <= 1
     /\ remote.platform = "stripe" =>
          \A i \in refunds : emitted[i].amount * Minor <= remote.total.amount

-----------------------------------------------------------------------------
(* order(): the fluent builder of an order.  Its methods note what was said, *)
(* in any order and any number of times; build() checks the composition,    *)
(* drives a commitment, an intent and, for a fulfilled order, a fulfillment  *)
(* along their canonical paths, and hands back either all of them or an     *)
(* error.  build() changes nothing, so it may be called early and again.    *)

CONSTANTS
  Goods,      \* the priced items a caller may add: [price, quantity]
  Payments,   \* the bare amounts
  Clocks,     \* what the clock may show
  MaxLines    \* items and amounts of one order

VARIABLES
  parties,    \* [buyer, seller], None until named
  basket,      \* the money of each line
  reached,    \* "proposed", "paid" or "fulfilled"
  built,      \* what build() answered, if it was called last: [ok, ...], or None
  onTime      \* the clock ran forward throughout it

builderVars == <<parties, basket, reached, built, onTime>>

ASSUME BuilderAssumption == Clocks \subseteq Nat

-----------------------------------------------------------------------------
(* What was said.                                                          *)

\* The caller goes on: an answer that build() gave before is behind it.
Unasked == built' = None /\ onTime' = TRUE

NameParty ==
  /\ \E who \in {"buyer", "seller"}, p \in Actors : parties' = [parties EXCEPT ![who] = p]
  /\ UNCHANGED <<basket, reached>> /\ Unasked

AddLine(money) ==
  /\ Len(basket) < MaxLines
  /\ basket' = Append(basket, money)
  /\ UNCHANGED <<parties, reached>> /\ Unasked

AddItem == \E g \in Goods : AddLine([g.price EXCEPT !.amount = @ * g.quantity])
AddValue == \E m \in Payments : AddLine(m)

\* paid() never takes an order back from fulfilled.
PaidFrom(stage) == IF stage = "proposed" THEN "paid" ELSE stage

MarkPaid == reached' = PaidFrom(reached) /\ UNCHANGED <<parties, basket>> /\ Unasked
MarkFulfilled == reached' = "fulfilled" /\ UNCHANGED <<parties, basket>> /\ Unasked

-----------------------------------------------------------------------------
(* build().                                                                *)

OneCurrency == \A i, j \in DOMAIN basket : basket[i].currency = basket[j].currency

Composes ==
  /\ parties.buyer # None /\ parties.seller # None /\ parties.buyer # parties.seller
  /\ basket # <<>> /\ OneCurrency

TargetState == [proposed |-> "Proposed", paid |-> "Accepted", fulfilled |-> "Fulfilled"]

IntentTransitions ==
  [Active |-> {"Abandoned", "Converted", "Expired"}, Abandoned |-> {}, Converted |-> {}, Expired |-> {}]

\* transitionIntent, on the intent build() has just made.
IntentConverts == "Converted" \in IntentTransitions["Active"]

\* The replay must really have reached the target, not fallen back to it.
Reaches(c, type) == c.state.type = type /\ c.history # <<>>

OrderTotal == [amount |-> MapThenSumSet(LAMBDA i : basket[i].amount, DOMAIN basket),
               currency |-> basket[1].currency]

Refusal == [ok |-> FALSE]

\* One reading of the clock per step: the commitment's, the intent's, the fulfillment's.
Answered(at) ==
  LET type == TargetState[reached]
      n == Len(CommitmentPath[type])
      c == ApplyCommitmentPath(Plain(type), parties.buyer, SubSeq(at, 1, n))
      f == ApplyFulfillmentPath("order", "Completed", parties.seller, SubSeq(at, n + 2, n + 3))
      delivers == reached = "fulfilled"
  IN IF ~Composes \/ ~Reaches(c, type) \/ ~IntentConverts
        \/ (delivers /\ (f.state.type # "Completed" \/ f.history = <<>>))
     THEN Refusal
     ELSE [ok |-> TRUE, commitment |-> c, total |-> OrderTotal, buyerMayBuy |-> reached # "proposed",
           fulfillments |-> IF delivers THEN <<f>> ELSE <<>>]

BuildOrder ==
  /\ \E at \in Readings(Len(CommitmentPath[TargetState[reached]]) + 3, Clocks) :
       built' = Answered(at) /\ onTime' = RunsForward(at)
  /\ UNCHANGED <<parties, basket, reached>>

BuilderInit ==
  /\ parties = [buyer |-> None, seller |-> None] /\ basket = <<>> /\ reached = "proposed"
  /\ built = None /\ onTime = TRUE

BuilderNext == NameParty \/ AddItem \/ AddValue \/ MarkPaid \/ MarkFulfilled \/ BuildOrder

BuilderSpec == BuilderInit /\ [][BuilderNext]_builderVars

-----------------------------------------------------------------------------
(* Properties.                                                             *)

\* An order that build() hands back has a full history even if the clock was set back
\* meanwhile - the builder refuses to paper over it - and passes auditCommerce, capacity of
\* the buyer included, when it ran forward; set back between acceptance and delivery, it
\* yields an order that is handed back and does not audit.
BuiltOrdersAudit ==
  built # None /\ built.ok =>
  /\ UnbrokenHistory(built.commitment)
  /\ built.commitment.state.type \in AcceptedOrLater => built.buyerMayBuy
  /\ built.fulfillments # <<>> <=> built.commitment.state.type = "Fulfilled"
  /\ onTime => AuditsClean("order", built.total, built.commitment, built.fulfillments)

\* What the adapters import and what the builder hands back has an unbroken history and
\* audits clean when the clock runs forward, and a status and a refund survive the way back
\* to the platform.
OrdersMadeSoundly == ImportsAudit /\ StatusSurvives /\ RefundsReachOnce /\ BuiltOrdersAudit
=============================================================================
