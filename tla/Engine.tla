------------------------------- MODULE Engine -------------------------------
(***************************************************************************)
(* stepModel: one event of a stream against an authored model, layer by    *)
(* layer: profiles, negotiation floors and regulatory packs (policies),    *)
(* the guard (step), the soundness of an auction's resolution.  A blocked  *)
(* event leaves the world as it is and has no effects.  The engine has no  *)
(* session: nothing is remembered but the world.                           *)
(***************************************************************************)
EXTENDS Pricing

CONSTANTS
  Events,        \* the action, concession and settlement events of the stream
  Times,         \* the readings the wall clock may give
  FixedClock,    \* the caller's clock, or None for the wall clock
  Initially,     \* per commitment: its state before the first event
  Fulfillments,
  Forms,         \* per commitment: the value forms its subject carries
  Profiles,      \* the model's profile and those of its policies: [states, forms]
  Bounds,        \* the negotiation bounds of its policies: [floor, committed]
  Packs,         \* the regulatory packs of its policies
  Auctions,      \* the auctions a model may carry: [bids, winner, price], winner and
                 \* price of a Closed one or None and NoMoney; no bids: no auction
  Offer,         \* per commitment: what a tender of it offers, or NoMoney
  Superseded,    \* commitments whose tender carries `superseded_by`
  MaxHistory     \* bound: no event on a commitment with so many transitions

ASSUME AuctionsAssumption ==
  Auctions \subseteq [bids : SUBSET Ids, winner : Ids \cup {None}, price : Money \cup {NoMoney}]
ASSUME StreamAssumption ==
  /\ Times \subseteq Nat /\ FixedClock \in Nat \cup {None}
  /\ Initially \in [Commitments -> States] /\ Actors # {}
  /\ \A e \in Events :
       CASE e.type = "action"     -> e.commitment \in Ids /\ e.to \in States /\ e.actor \in Actors
         [] e.type = "concession" -> /\ e.commitment \in Ids /\ e.actor \in Actors
                                     /\ e.kind \in DOMAIN TargetOf /\ e.price \in Money
         [] OTHER                 -> /\ e.committedTotal \in Money
                                     /\ e.settlement.total.amount \in Nat
                                     /\ IsListOfParts(e.settlement.components)
ASSUME PoliciesAssumption ==
  /\ Bounds \subseteq [floor : Money, committed : Money \cup {NoMoney}]
  /\ \A pack \in Packs : \A j \in DOMAIN pack : pack[j] \subseteq Nat

VARIABLES
  auction,   \* the auction of the model the stream runs under; never changes
  world,
  effects,   \* the effect descriptors handed to the host so far
  approved,  \* history variable: the last settlement that passed, as a set
  agreed     \* history variable: commitment -> price of its last concession that passed

engineVars == <<auction, world, effects, approved, agreed>>

-----------------------------------------------------------------------------
(* Effects of a validated action (toEffect).                               *)

Effect(kind, a, amount) == <<[kind |-> kind, commitment |-> a.commitment, amount |-> amount]>>

EffectsOf(a) ==
  CASE a.to.type = "Refunded"  -> Effect("refund", a, a.to.amount)
    [] a.to.type = "Cancelled" -> Effect("cancel", a, NoMoney)
    [] a.to.type = "Disputed"  -> Effect("notify", a, NoMoney)
    [] a.to.type = "Fulfilled" -> Effect("fulfill", a, NoMoney)
    [] a.to.type = "Accepted"  -> IF Committed[a.commitment] = NoMoney THEN <<>>
                                  ELSE Effect("settle", a, Committed[a.commitment])
    [] OTHER                   -> <<>>

-----------------------------------------------------------------------------
(* Profile layer: only narrows, and leaves unknown commitments to the base. *)

InProfile(p, a) ==
  a.commitment \in Commitments => a.to.type \in p.states /\ Forms[a.commitment] \subseteq p.forms

InProfiles(a) == \A p \in Profiles : InProfile(p, a)

-----------------------------------------------------------------------------
(* Auction layer: what is unsound in the resolution a world shows.         *)

Awarded == {"Accepted", "Modified", "Active", "PartiallyFulfilled",
            "Fulfilled", "Disputed", "Refunded"}

AwardedBids(w) == {c \in auction.bids \cap Commitments : w[c].state.type \in Awarded}

WasTendered(c) ==
  c.state.type = "Tendered" \/ \E i \in DOMAIN c.history : c.history[i].to.type = "Tendered"

\* Slip: every pair of awards is let pass while the declared winner is among them.
FindingsOfRivals(w) ==
  {<<"auction-award-membership", {c}>> :
     c \in {x \in AwardedBids(w) : auction.winner # None /\ x # auction.winner}}

\* checkAuctionResolution: the findings, each as its rule and the ids its message names.
\* (An awarded bid is a tendered one by its construction, so the branch for any other
\* cannot be reached.)
Findings(w) ==
  LET awarded == AwardedBids(w)
      rivals  == {c \in awarded : auction.winner # None /\ c # auction.winner}
      open    == {c \in (auction.bids \cap Commitments) \ awarded :
                    w[c].state.type = "Tendered" /\ c \notin Superseded}
      charged == {c \in awarded : awarded = {c} /\ auction.winner # None
                                    /\ auction.price # NoMoney /\ WasTendered(w[c])}
      foreign == {c \in charged : auction.price.currency # Offer[c].currency}
      dear    == {c \in charged \ foreign : auction.price.amount > Offer[c].amount}
  IN IF awarded = {} THEN {}
     ELSE (IF Cardinality(awarded) > 1 THEN {<<"auction-single-award", awarded>>} ELSE {})
          \cup {<<"auction-award-membership", {c}>> : c \in rivals}
          \cup {<<"auction-loser-unreleased", {c}>> : c \in open}
          \cup {<<"auction-price-currency", {c}>> : c \in foreign}
          \cup {<<"auction-price-exceeds-bid", {c}>> : c \in dear}

\* Only what this event introduced is held against it.
SoundAfter(w) == Findings(w) \subseteq Findings(world)

-----------------------------------------------------------------------------
(* The action event.                                                       *)

EngineTime(at) == IF FixedClock # None THEN FixedClock ELSE at

\* guardAction, in step(): the only layer that advances anything.
BaseAccepts(a, at) == GuardAccepts(world, Fulfillments, a, None, at)

Allowed(a, at) ==
  InProfiles(a) /\ BaseAccepts(a, EngineTime(at)) /\ SoundAfter(MoveIn(world, a, EngineTime(at)))

\* Slip: the base layer's effects are out before the auction layer has refused.
ActEager(a, at) ==
  /\ InProfiles(a) /\ BaseAccepts(a, EngineTime(at))
  /\ LET w == MoveIn(world, a, EngineTime(at))
     IN world' = IF SoundAfter(w) THEN w ELSE world
  /\ effects' = effects \o EffectsOf(a)

Act(a, at) ==
  /\ Allowed(a, at)
  /\ world' = MoveIn(world, a, EngineTime(at))
  /\ effects' = effects \o EffectsOf(a)

Move(e) == [commitment |-> e.commitment, to |-> e.to, actor |-> e.actor, key |-> None]

ActionPasses(e, at) == e.type = "action" /\ Act(Move(e), at) /\ UNCHANGED <<approved, agreed>>

-----------------------------------------------------------------------------
(* The concession event: every floor, in a session of its own on the wall  *)
(* clock (guardConcession), then the equivalent action on the engine's.    *)

ConcessionMove(e) ==
  [commitment |-> e.commitment, to |-> Plain(TargetOf[e.kind]), actor |-> e.actor, key |-> None]

\* An exception of guardConcession is a block like any other.
PassesFloor(b, e, at) ==
  IF Malformed(b, e.commitment) THEN FALSE
  ELSE /\ e.price.currency = OpeningPrice(b, e.commitment).currency
       /\ ~OverConcession(OpeningPrice(b, e.commitment).amount, b.floor.amount, e.price.amount)
       /\ BaseAccepts(ConcessionMove(e), at)

ConcessionPasses(e, at) ==
  /\ e.type = "concession"
  /\ \A b \in Bounds : PassesFloor(b, e, at)
  /\ Act(ConcessionMove(e), at)
  /\ agreed' = [agreed EXCEPT ![e.commitment] = e.price]
  /\ UNCHANGED approved

-----------------------------------------------------------------------------
(* The settlement event: a check by every pack, which advances nothing.    *)

SettlementPasses(e) ==
  /\ e.type = "settlement"
  /\ Packs # {}
  /\ \A pack \in Packs : CheckSettlementPolicy(e.settlement, e.committedTotal, pack)
  /\ approved' = {e}
  /\ UNCHANGED <<world, effects, agreed>>

-----------------------------------------------------------------------------

Blocked(e, at) ==
  /\ CASE e.type = "action"     -> ~Allowed(Move(e), at)
       [] e.type = "concession" -> \/ \E b \in Bounds : ~PassesFloor(b, e, at)
                                   \/ ~Allowed(ConcessionMove(e), at)
       [] OTHER                 -> \/ Packs = {}
                                   \/ \E pack \in Packs :
                                        ~CheckSettlementPolicy(e.settlement, e.committedTotal, pack)
  /\ UNCHANGED engineVars

StepModel(e, at) ==
  \/ ActionPasses(e, at)
  \/ ConcessionPasses(e, at)
  \/ SettlementPasses(e)
  \/ Blocked(e, at)

InitialWorld ==
  [c \in Commitments |-> Synthesized(Initially[c], CHOOSE p \in Actors : TRUE)]

EngineInit ==
  /\ auction \in Auctions
  /\ world = InitialWorld
  /\ effects = <<>> /\ approved = {}
  /\ agreed = [c \in Commitments |-> NoMoney]

BelowBound(e) ==
  e.commitment \in Commitments => Len(world[e.commitment].history) < MaxHistory

EngineNext ==
  \E e \in Events, at \in Times : BelowBound(e) /\ StepModel(e, at) /\ UNCHANGED auction

EngineSpec == EngineInit /\ [][EngineNext]_engineVars

-----------------------------------------------------------------------------
(* Properties.                                                             *)

KindOf ==
  [Refunded |-> "refund", Cancelled |-> "cancel", Disputed |-> "notify",
   Fulfilled |-> "fulfill", Accepted |-> "settle"]

\* The host is to hear of a move of c to a state, and is told more than nothing.
HasEffect(c, to) ==
  to.type \in DOMAIN KindOf /\ (to.type = "Accepted" => Committed[c] # NoMoney)

\* What the host was told to do for a commitment is what its history says was done since
\* the stream began, in the same order: nothing for a blocked event, once for a move.
EffectsTellMoves ==
  \A c \in Commitments :
    LET entries == (Len(InitialWorld[c].history) + 1)..Len(world[c].history)
        owed    == {i \in entries : HasEffect(c, world[c].history[i].to)}
        told    == {i \in DOMAIN effects : effects[i].commitment = c}
    IN TellTheSame(owed, [i \in owed |-> KindOf[world[c].history[i].to.type]],
                   told, [i \in told |-> effects[i].kind])

\* The host was told to capture the bid, and not to cancel it since.
Captured(c) ==
  \E i \in DOMAIN effects :
    /\ effects[i].commitment = c /\ effects[i].kind = "settle"
    /\ \A j \in (i + 1)..Len(effects) : ~(effects[j].commitment = c /\ effects[j].kind = "cancel")

\* The host captures the auction's subject from one bidder at a time: a second bid is
\* captured only after the first winner was cancelled.
OneCapturedBid ==
  AwardedBids(InitialWorld) = {} =>
    \A c, d \in auction.bids \cap Commitments : Captured(c) /\ Captured(d) => c = d

\* A price that was conceded is at or above every policy's floor, to the tolerance, and
\* in its currency.
AgreedAboveFloors ==
  \A c \in Commitments, b \in Bounds :
    agreed[c] # NoMoney =>
      /\ agreed[c].currency = b.floor.currency
      /\ agreed[c].amount + Eps > b.floor.amount

\* A settlement that passed accounts for what was committed: its lines add up to it
\* (two tolerances: lines against total, total against commitment), and its tax lines
\* are each the permitted rate of what is not tax.
ApprovedSettlementsAccount ==
  \A e \in approved :
    LET parts == e.settlement.components
        gap   == SumComponents(parts) - e.committedTotal.amount
    IN /\ gap < 2 * Eps /\ -gap < 2 * Eps
       /\ \A i \in DOMAIN parts :
            IsTax(parts[i]) =>
              LET excess == 100 * parts[i].amount - TaxableBase(e.settlement) * parts[i].rate
              IN excess < 100 * Eps /\ -excess < 100 * Eps
=============================================================================
