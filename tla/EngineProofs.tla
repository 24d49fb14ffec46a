---------------------------- MODULE EngineProofs ----------------------------
(***************************************************************************)
(* Theorems about Engine, stepModel over a stream of events: the effects   *)
(* are what the histories tell, one bid is captured at a time, no price is *)
(* conceded below a floor, and what passes as settled adds up.             *)
(***************************************************************************)
EXTENDS Engine, CommerceModelProofs

EffectRecords ==
  [kind : {"refund", "cancel", "notify", "fulfill", "settle"},
   commitment : Commitments, amount : Money \cup {NoMoney}]

EngineTyped ==
  /\ auction \in Auctions
  /\ world \in [Commitments -> Commitment]
  /\ effects \in Seq(EffectRecords)
  /\ approved \subseteq {e \in Events : e.type = "settlement"}
  /\ agreed \in [Commitments -> Money \cup {NoMoney}]

-----------------------------------------------------------------------------
(* The move an event asks for, and what a step does of it.                 *)

Asks(e, a) ==
  \/ e.type = "action" /\ a = Move(e)
  \/ e.type = "concession" /\ a = ConcessionMove(e)

LEMMA AskedIsMove ==
  ASSUME NEW e \in Events, NEW a, Asks(e, a)
  PROVE  a.to \in States /\ a.actor \in Actors
<1>1. CASE e.type = "action" /\ a = Move(e)
  <2>1. e.to \in States /\ e.actor \in Actors
    BY <1>1, StreamAssumption
  <2>2. QED
    BY <1>1, <2>1 DEF Move
<1>2. CASE e.type = "concession" /\ a = ConcessionMove(e)
  <2>1. e.actor \in Actors /\ e.kind \in DOMAIN TargetOf
    BY <1>2, StreamAssumption
  <2>2. TargetOf[e.kind] \in StateTypes /\ TargetOf[e.kind] # "Refunded"
    BY <2>1 DEF TargetOf, StateTypes, CommitmentTransitions
  <2>3. QED
    BY <1>2, <2>1, <2>2, PlainIsState DEF ConcessionMove
<1>3. QED
  BY <1>1, <1>2 DEF Asks

\* A step moves one commitment as asked, keeps what was settled, or leaves everything.
LEMMA StepIs ==
  ASSUME NEW e \in Events, NEW at \in Times, StepModel(e, at)
  PROVE  \/ \E a : Asks(e, a) /\ Act(a, at) /\ UNCHANGED approved
         \/ SettlementPasses(e)
         \/ UNCHANGED <<world, effects, approved, agreed>>
<1>1. CASE ActionPasses(e, at)
  BY <1>1 DEF ActionPasses, Asks
<1>2. CASE ConcessionPasses(e, at)
  BY <1>2 DEF ConcessionPasses, Asks
<1>3. CASE SettlementPasses(e)
  BY <1>3
<1>4. CASE Blocked(e, at)
  BY <1>4 DEF Blocked, engineVars
<1>5. QED
  BY <1>1, <1>2, <1>3, <1>4 DEF StepModel

LEMMA EngineTimeType == ASSUME NEW at \in Times PROVE EngineTime(at) \in Nat
BY StreamAssumption DEF EngineTime

\* toEffect: one effect of the move's kind, or none.
LEMMA EffectsOfMove ==
  ASSUME NEW a, a.commitment \in Commitments, a.to \in States
  PROVE  IF HasEffect(a.commitment, a.to)
         THEN \E x \in EffectRecords :
                /\ EffectsOf(a) = <<x>>
                /\ x.kind = KindOf[a.to.type] /\ x.commitment = a.commitment
         ELSE EffectsOf(a) = <<>>
<1> PICK t, c : t = a.to.type /\ c = a.commitment
  OBVIOUS
<1>1. t \in StateTypes /\ (t = "Refunded" => a.to.amount \in Money \cup {NoMoney})
  BY DEF States
<1>2. Committed[c] \in Money \cup {NoMoney}
  BY MoneyAssumption
<1>3. CASE t = "Refunded"
  <2>1. EffectsOf(a) = <<[kind |-> "refund", commitment |-> c, amount |-> a.to.amount]>>
    BY <1>3 DEF EffectsOf, Effect
  <2>2. QED
    BY <1>1, <1>3, <2>1 DEF HasEffect, KindOf, EffectRecords
<1>4. CASE t = "Cancelled"
  <2>1. EffectsOf(a) = <<[kind |-> "cancel", commitment |-> c, amount |-> NoMoney]>>
    BY <1>4 DEF EffectsOf, Effect
  <2>2. QED
    BY <1>4, <2>1 DEF HasEffect, KindOf, EffectRecords
<1>5. CASE t = "Disputed"
  <2>1. EffectsOf(a) = <<[kind |-> "notify", commitment |-> c, amount |-> NoMoney]>>
    BY <1>5 DEF EffectsOf, Effect
  <2>2. QED
    BY <1>5, <2>1 DEF HasEffect, KindOf, EffectRecords
<1>6. CASE t = "Fulfilled"
  <2>1. EffectsOf(a) = <<[kind |-> "fulfill", commitment |-> c, amount |-> NoMoney]>>
    BY <1>6 DEF EffectsOf, Effect
  <2>2. QED
    BY <1>6, <2>1 DEF HasEffect, KindOf, EffectRecords
<1>7. CASE t = "Accepted" /\ Committed[c] # NoMoney
  <2>1. EffectsOf(a) = <<[kind |-> "settle", commitment |-> c, amount |-> Committed[c]]>>
    BY <1>7 DEF EffectsOf, Effect
  <2>2. QED
    BY <1>2, <1>7, <2>1 DEF HasEffect, KindOf, EffectRecords
<1>8. CASE t = "Accepted" /\ Committed[c] = NoMoney
  BY <1>8 DEF EffectsOf, Effect, HasEffect, KindOf
<1>9. CASE t \notin DOMAIN KindOf
  BY <1>9 DEF EffectsOf, HasEffect, KindOf
<1>10. QED
  BY <1>3, <1>4, <1>5, <1>6, <1>7, <1>8, <1>9 DEF KindOf

\* What a move changes: one commitment's state and history, and the effects, by one
\* or none.
ActChanges(a, at) ==
  /\ a.commitment \in Commitments
  /\ world' \in [Commitments -> Commitment]
  /\ world'[a.commitment].state = a.to
  /\ IsValidCommitmentTransition(world[a.commitment].state, a.to)
  /\ Len(world'[a.commitment].history) = Len(world[a.commitment].history) + 1
  /\ \A i \in 1..Len(world[a.commitment].history) :
       world'[a.commitment].history[i] = world[a.commitment].history[i]
  /\ world'[a.commitment].history[Len(world[a.commitment].history) + 1].to = a.to
  /\ \A c \in Commitments \ {a.commitment} : world'[c] = world[c]
  /\ IF HasEffect(a.commitment, a.to)
     THEN \E x \in EffectRecords :
            /\ effects' = Append(effects, x)
            /\ x.kind = KindOf[a.to.type] /\ x.commitment = a.commitment
     ELSE effects' = effects

LEMMA ActIs ==
  ASSUME EngineTyped, NEW a, a.to \in States, a.actor \in Actors, NEW at \in Times, Act(a, at)
  PROVE  ActChanges(a, at)
<1> PICK c, u : c = a.commitment /\ u = EngineTime(at)
  OBVIOUS
<1>1. c \in Commitments /\ u \in Nat /\ TransitionOk(world[c], a.to, u)
  BY EngineTimeType DEF Act, Allowed, BaseAccepts, GuardAccepts
<1>2. world' = [world EXCEPT ![c] = Transitioned(world[c], a.to, a.actor, u)]
  BY DEF Act, MoveIn
<1> PICK x : x = world[c]
  OBVIOUS
<1> PICK y : y = Transitioned(x, a.to, a.actor, u)
  OBVIOUS
<1>3. x \in Commitment
  BY <1>1 DEF EngineTyped
<1>4. y \in Commitment /\ y.state = a.to /\ Len(y.history) = Len(x.history) + 1
  BY <1>1, <1>3, TransitionedType
<1>5. /\ \A i \in 1..Len(x.history) : y.history[i] = x.history[i]
      /\ y.history[Len(x.history) + 1].to = a.to
  <2>1. /\ \A i \in 1..Len(x.history) : y.history[i] = x.history[i]
        /\ y.history[Len(x.history) + 1]
             = [from |-> x.state, to |-> a.to, at |-> u, actor |-> a.actor]
    BY <1>1, <1>3, TransitionedEntries
  <2>2. QED
    BY <2>1
<1>6. world' = [world EXCEPT ![c] = y]
  BY <1>2
<1>7. /\ world' \in [Commitments -> Commitment] /\ world'[c] = y
      /\ \A d \in Commitments \ {c} : world'[d] = world[d]
  BY <1>1, <1>4, <1>6 DEF EngineTyped
<1>8. effects' = effects \o EffectsOf(a)
  BY DEF Act
<1>9. IF HasEffect(c, a.to)
      THEN \E z \in EffectRecords :
             /\ effects' = Append(effects, z)
             /\ z.kind = KindOf[a.to.type] /\ z.commitment = c
      ELSE effects' = effects
  <2>1. effects \in Seq(EffectRecords)
    BY DEF EngineTyped
  <2>2. CASE HasEffect(c, a.to)
    <3>1. PICK z \in EffectRecords :
            EffectsOf(a) = <<z>> /\ z.kind = KindOf[a.to.type] /\ z.commitment = c
      BY <1>1, <2>2, EffectsOfMove
    <3>2. effects' = Append(effects, z)
      BY <1>8, <2>1, <3>1
    <3>3. QED
      BY <2>2, <3>1, <3>2
  <2>3. CASE ~HasEffect(c, a.to)
    <3>1. EffectsOf(a) = <<>>
      BY <1>1, <2>3, EffectsOfMove
    <3>2. QED
      BY <1>8, <2>1, <2>3, <3>1
  <2>4. QED
    BY <2>2, <2>3
<1>10. IsValidCommitmentTransition(x.state, a.to)
  BY <1>1 DEF TransitionOk
<1>11. QED
  BY <1>1, <1>4, <1>5, <1>7, <1>9, <1>10 DEF ActChanges

-----------------------------------------------------------------------------
(* Types.                                                                  *)

LEMMA InitEngineTyped == EngineInit => EngineTyped
<1> SUFFICES ASSUME EngineInit PROVE EngineTyped
  OBVIOUS
<1> PICK p : p = CHOOSE q \in Actors : TRUE
  OBVIOUS
<1>1. p \in Actors
  BY StreamAssumption
<1>2. ASSUME NEW c \in Commitments PROVE Synthesized(Initially[c], p) \in Commitment
  BY <1>1, StreamAssumption, SynthesizedType
<1>3. world = [c \in Commitments |-> Synthesized(Initially[c], p)]
  BY DEF EngineInit, InitialWorld
<1>4. world \in [Commitments -> Commitment]
  BY <1>2, <1>3
<1>5. QED
  BY <1>4 DEF EngineInit, EngineTyped

LEMMA NextEngineTyped == EngineTyped /\ [EngineNext]_engineVars => EngineTyped'
<1> SUFFICES ASSUME EngineTyped, [EngineNext]_engineVars PROVE EngineTyped'
  OBVIOUS
<1>1. CASE UNCHANGED engineVars
  BY <1>1 DEF EngineTyped, engineVars
<1>2. ASSUME NEW e \in Events, NEW at \in Times, StepModel(e, at), UNCHANGED auction
      PROVE  EngineTyped'
  <2>1. ASSUME NEW a, Asks(e, a), Act(a, at), UNCHANGED approved
        PROVE  EngineTyped'
    <3>1. ActChanges(a, at)
      BY <2>1, AskedIsMove, ActIs
    <3>2. effects' \in Seq(EffectRecords)
      <4>1. effects \in Seq(EffectRecords)
        BY DEF EngineTyped
      <4>2. QED
        BY <3>1, <4>1, AppendProperties DEF ActChanges
    <3>3. agreed' \in [Commitments -> Money \cup {NoMoney}]
      <4>1. CASE ActionPasses(e, at)
        BY <4>1 DEF ActionPasses, EngineTyped
      <4>2. CASE ConcessionPasses(e, at)
        <5>1. e.price \in Money
          BY <4>2, StreamAssumption DEF ConcessionPasses
        <5>2. QED
          BY <4>2, <5>1 DEF ConcessionPasses, EngineTyped
      <4>3. CASE SettlementPasses(e)
        BY <4>3 DEF SettlementPasses, EngineTyped
      <4>4. CASE Blocked(e, at)
        BY <4>4 DEF Blocked, engineVars, EngineTyped
      <4>5. QED
        BY <1>2, <4>1, <4>2, <4>3, <4>4 DEF StepModel
    <3>4. QED
      BY <1>2, <2>1, <3>1, <3>2, <3>3 DEF ActChanges, EngineTyped
  <2>2. CASE SettlementPasses(e)
    BY <1>2, <2>2 DEF SettlementPasses, EngineTyped
  <2>3. CASE UNCHANGED <<world, effects, approved, agreed>>
    BY <1>2, <2>3 DEF EngineTyped
  <2>4. QED
    BY <1>2, <2>1, <2>2, <2>3, StepIs
<1>3. QED
  BY <1>1, <1>2 DEF EngineNext

THEOREM EngineTypes == EngineSpec => []EngineTyped
BY InitEngineTyped, NextEngineTyped, PTL DEF EngineSpec

-----------------------------------------------------------------------------
(* Policies: what is agreed and what is approved.                          *)

\* guardConcession passes no price below the floor, but for the tolerance.
LEMMA FloorKept ==
  ASSUME NEW b \in Bounds, NEW e, e.price \in Money, NEW at, PassesFloor(b, e, at)
  PROVE  e.price.currency = b.floor.currency /\ e.price.amount + Eps > b.floor.amount
<1> DEFINE opening == OpeningPrice(b, e.commitment)
<1>1. b.floor \in Money /\ Eps \in Nat \ {0}
  BY PoliciesAssumption, MoneyAssumption
<1>2. e.commitment \in Commitments /\ opening # NoMoney
  BY DEF PassesFloor, Malformed
<1>3. opening \in Money
  BY <1>2, PoliciesAssumption, MoneyAssumption DEF OpeningPrice
<1>4. /\ opening.currency = b.floor.currency /\ opening.amount >= b.floor.amount
      /\ e.price.currency = opening.currency
      /\ ~OverConcession(opening.amount, b.floor.amount, e.price.amount)
  <2>1. ~Malformed(b, e.commitment)
    BY DEF PassesFloor
  <2>2. ~(opening.amount < b.floor.amount)
    BY <2>1 DEF Malformed
  <2>3. QED
    BY <1>1, <1>3, <2>1, <2>2 DEF PassesFloor, Malformed, Money
<1> PICK o, f, p : o = opening.amount /\ f = b.floor.amount /\ p = e.price.amount
  OBVIOUS
<1>5. o \in Nat /\ f \in Nat /\ p \in Nat /\ o >= f /\ ~OverConcession(o, f, p)
  BY <1>1, <1>3, <1>4 DEF Money
<1>6. p + Eps > f
  BY <1>1, <1>5 DEF OverConcession, Conceded, MoneyEquals
<1>7. QED
  BY <1>4, <1>6

\* A price that was conceded is at or above every floor, whatever the stream.
THEOREM FloorsHold == EngineSpec => []AgreedAboveFloors
<1>1. EngineInit => AgreedAboveFloors
  BY DEF EngineInit, AgreedAboveFloors
<1>2. ASSUME EngineTyped, AgreedAboveFloors, [EngineNext]_engineVars PROVE AgreedAboveFloors'
  <2>1. CASE UNCHANGED agreed
    BY <1>2, <2>1 DEF AgreedAboveFloors
  <2>2. ASSUME NEW e \in Events, NEW at \in Times, ConcessionPasses(e, at)
        PROVE  AgreedAboveFloors'
    <3>1. e.price \in Money
      BY <2>2, StreamAssumption DEF ConcessionPasses
    <3>2. ASSUME NEW c \in Commitments, NEW b \in Bounds, agreed'[c] # NoMoney
          PROVE  /\ agreed'[c].currency = b.floor.currency
                 /\ agreed'[c].amount + Eps > b.floor.amount
      <4>1. agreed' = [agreed EXCEPT ![e.commitment] = e.price]
        BY <2>2 DEF ConcessionPasses
      <4>2. CASE c = e.commitment
        <5>1. agreed'[c] = e.price
          BY <1>2, <4>1, <4>2 DEF EngineTyped
        <5>2. PassesFloor(b, e, at)
          BY <2>2 DEF ConcessionPasses
        <5>3. QED
          BY <3>1, <5>1, <5>2, FloorKept
      <4>3. CASE c # e.commitment
        BY <1>2, <3>2, <4>1, <4>3 DEF AgreedAboveFloors, EngineTyped
      <4>4. QED
        BY <4>2, <4>3
    <3>3. QED
      BY <3>2 DEF AgreedAboveFloors
  <2>3. QED
    BY <1>2, <2>1, <2>2
       DEF EngineNext, StepModel, ActionPasses, SettlementPasses, Blocked, engineVars
<1>3. QED
  BY <1>1, <1>2, EngineTypes, PTL DEF EngineSpec

\* What settles adds up to what was committed, and its taxes are at the permitted rate.
THEOREM SettlementsAccount == EngineSpec => []ApprovedSettlementsAccount
<1> DEFINE Accounts(e) ==
       LET parts == e.settlement.components
           gap   == SumComponents(parts) - e.committedTotal.amount
       IN /\ gap < 2 * Eps /\ -gap < 2 * Eps
          /\ \A i \in DOMAIN parts :
               IsTax(parts[i]) =>
                 LET excess == 100 * parts[i].amount - TaxableBase(e.settlement) * parts[i].rate
                 IN excess < 100 * Eps /\ -excess < 100 * Eps
<1>1. EngineInit => ApprovedSettlementsAccount
  BY DEF EngineInit, ApprovedSettlementsAccount
<1>2. ASSUME NEW e \in Events, SettlementPasses(e)
      PROVE  Accounts(e)
  <2> PICK pack \in Packs : CheckSettlementPolicy(e.settlement, e.committedTotal, pack)
    BY <1>2 DEF SettlementPasses
  <2> DEFINE parts == e.settlement.components
  <2>1. /\ e.committedTotal \in Money /\ e.settlement.total.amount \in Nat
        /\ IsListOfParts(parts)
    BY <1>2, StreamAssumption DEF SettlementPasses
  <2>2. SumComponents(parts) \in Int
    <3> DEFINE amounts == [i \in DOMAIN parts |-> parts[i].amount]
    <3>1. IsFiniteSet(DOMAIN parts) /\ \A i \in DOMAIN parts : amounts[i] \in Int
      BY <2>1 DEF IsListOfParts
    <3> HIDE DEF amounts
    <3>2. SumFunctionOnSet(amounts, DOMAIN parts) \in Int
      BY <3>1, SumType
    <3>3. QED
      BY <3>2 DEF SumComponents, SumOver, amounts
  <2>3. /\ MoneyEquals(e.settlement.total.amount, e.committedTotal.amount)
        /\ MoneyEquals(SumComponents(parts), e.settlement.total.amount)
    BY DEF CheckSettlementPolicy, ValidSettlement, AddsUp
  <2>4. SumComponents(parts) - e.committedTotal.amount < 2 * Eps
        /\ -(SumComponents(parts) - e.committedTotal.amount) < 2 * Eps
    <3> PICK x, y, z : /\ x = SumComponents(parts) /\ y = e.settlement.total.amount
                      /\ z = e.committedTotal.amount
      OBVIOUS
    <3>1. /\ x \in Int /\ y \in Int /\ z \in Int /\ Eps \in Nat
          /\ MoneyEquals(y, z) /\ MoneyEquals(x, y)
      BY <2>1, <2>2, <2>3, MoneyAssumption DEF Money
    <3>2. x - z < 2 * Eps /\ -(x - z) < 2 * Eps
      BY <3>1 DEF MoneyEquals
    <3>3. QED
      BY <3>2
  <2>5. ASSUME NEW i \in DOMAIN parts, IsTax(parts[i])
        PROVE  LET excess == 100 * parts[i].amount - TaxableBase(e.settlement) * parts[i].rate
               IN excess < 100 * Eps /\ -excess < 100 * Eps
    <3>1. PermittedTax(parts[i], pack, TaxableBase(e.settlement))
      BY <2>5 DEF CheckSettlementPolicy
    <3>2. QED
      BY <3>1 DEF PermittedTax
  <2>6. QED
    BY <2>4, <2>5
<1>3. ASSUME ApprovedSettlementsAccount, [EngineNext]_engineVars
      PROVE  ApprovedSettlementsAccount'
  <2>1. approved' = approved \/ \E e \in Events : SettlementPasses(e) /\ approved' = {e}
    BY <1>3 DEF EngineNext, StepModel, ActionPasses, ConcessionPasses, SettlementPasses,
                Blocked, engineVars
  <2>2. \A e \in approved' : Accounts(e)
    <3>1. \A e \in approved : Accounts(e)
      BY <1>3 DEF ApprovedSettlementsAccount
    <3> HIDE DEF Accounts
    <3>2. QED
      BY <1>2, <2>1, <3>1
  <2>3. QED
    BY <2>2 DEF ApprovedSettlementsAccount
<1>4. QED
  BY <1>1, <1>3, PTL DEF EngineSpec

-----------------------------------------------------------------------------
(* Auctions: one captured bid.                                             *)

LEMMA AwardedIsFinite == ASSUME NEW w PROVE IsFiniteSet(AwardedBids(w))
BY CommitmentsAssumption, FS_Subset DEF AwardedBids

\* checkAuctionResolution finds a second award, and only that under this name.
LEMMA SecondAwardIsFound ==
  ASSUME NEW w
  PROVE  (\E x : <<"auction-single-award", x>> \in Findings(w))
           <=> \E c, d \in AwardedBids(w) : c # d
<1> PICK awarded : awarded = AwardedBids(w)
  OBVIOUS
<1>1. IsFiniteSet(awarded)
  BY AwardedIsFinite
<1>2. (\E c, d \in awarded : c # d) <=> (awarded # {} /\ Cardinality(awarded) > 1)
  <2>1. ASSUME NEW c \in awarded, NEW d \in awarded, c # d PROVE Cardinality(awarded) > 1
    <3>1. Cardinality({c}) = 1 /\ IsFiniteSet({c})
      BY FS_Singleton
    <3>2. Cardinality({c} \cup {d}) = 2
      <4>1. d \notin {c}
        BY <2>1
      <4>2. Cardinality({c} \cup {d}) = Cardinality({c}) + 1
        BY <3>1, <4>1, FS_AddElement
      <4>3. QED
        BY <3>1, <4>2
    <3>3. Cardinality({c} \cup {d}) <= Cardinality(awarded)
      BY <1>1, FS_Subset
    <3>4. QED
      BY <1>1, <3>2, <3>3, FS_CardinalityType
  <2>2. ASSUME awarded # {}, Cardinality(awarded) > 1, \A c, d \in awarded : c = d PROVE FALSE
    <3>1. PICK c : awarded = {c}
      BY <2>2
    <3>2. QED
      BY <2>2, <3>1, FS_Singleton
  <2>3. QED
    BY <2>1, <2>2
<1>3. (\E x : <<"auction-single-award", x>> \in Findings(w))
        <=> (awarded # {} /\ Cardinality(awarded) > 1)
  BY DEF Findings
<1>4. QED
  BY <1>2, <1>3

CapturedIsAwarded == \A c \in Commitments : Captured(c) => world[c].state.type \in Awarded

OneAward == AwardedBids(InitialWorld) = {} => \A c, d \in AwardedBids(world) : c = d

BidsInv == CapturedIsAwarded /\ OneAward

\* A bid that has been awarded stays awarded until it is cancelled.
LEMMA AwardedUntilCancelled ==
  ASSUME NEW from, from.type \in Awarded, NEW to, to.type # "Cancelled",
         IsValidCommitmentTransition(from, to)
  PROVE  to.type \in Awarded
BY DEF Awarded, IsValidCommitmentTransition, CommitmentTransitions

LEMMA ActKeepsCaptured ==
  ASSUME EngineTyped, CapturedIsAwarded, NEW a, a.to \in States, NEW at, ActChanges(a, at)
  PROVE  CapturedIsAwarded'
<1> PICK n, t : n = Len(effects) /\ t = a.to.type
  OBVIOUS
<1>1. effects \in Seq(EffectRecords) /\ n \in Nat /\ DOMAIN effects = 1..n
  BY LenProperties DEF EngineTyped
<1>2. \/ effects' = effects /\ ~HasEffect(a.commitment, a.to)
      \/ /\ Len(effects') = n + 1 /\ DOMAIN effects' = 1..(n + 1)
         /\ \A i \in 1..n : effects'[i] = effects[i]
         /\ effects'[n + 1].kind = KindOf[t] /\ effects'[n + 1].commitment = a.commitment
         /\ t \in DOMAIN KindOf
  <2>1. CASE HasEffect(a.commitment, a.to)
    <3>1. PICK x \in EffectRecords : /\ effects' = Append(effects, x)
                                     /\ x.kind = KindOf[t] /\ x.commitment = a.commitment
      BY <2>1 DEF ActChanges
    <3>2. /\ effects' \in Seq(EffectRecords) /\ Len(effects') = n + 1
          /\ \A i \in 1..n : effects'[i] = effects[i]
          /\ effects'[n + 1] = x
      BY <1>1, <3>1, AppendProperties
    <3>3. DOMAIN effects' = 1..(n + 1)
      BY <3>2, LenProperties
    <3>4. QED
      BY <2>1, <3>1, <3>2, <3>3 DEF HasEffect
  <2>2. CASE ~HasEffect(a.commitment, a.to)
    BY <2>2 DEF ActChanges
  <2>3. QED
    BY <2>1, <2>2
<1>3. ASSUME NEW c \in Commitments, Captured(c)',
             ~(c = a.commitment /\ t \in {"Accepted", "Cancelled"})
      PROVE  Captured(c)
  <2>1. CASE effects' = effects
    BY <1>3, <2>1 DEF Captured
  <2>2. CASE effects' # effects
    <3>1. PICK i \in DOMAIN effects' :
            /\ effects'[i].commitment = c /\ effects'[i].kind = "settle"
            /\ \A j \in (i + 1)..Len(effects') :
                 ~(effects'[j].commitment = c /\ effects'[j].kind = "cancel")
      BY <1>3 DEF Captured
    <3>2. i # n + 1
      <4>1. t # "Accepted" => KindOf[t] # "settle"
        BY <1>2, <2>2 DEF KindOf
      <4>2. QED
        BY <1>2, <1>3, <2>2, <3>1, <4>1
    <3>3. i \in 1..n
      BY <1>1, <1>2, <2>2, <3>1, <3>2
    <3>4. effects[i].commitment = c /\ effects[i].kind = "settle"
      BY <1>2, <2>2, <3>1, <3>3
    <3>5. ASSUME NEW j \in (i + 1)..n
          PROVE  ~(effects[j].commitment = c /\ effects[j].kind = "cancel")
      <4>1. j \in 1..n /\ j \in (i + 1)..(n + 1)
        BY <1>1, <3>3
      <4>2. QED
        BY <1>2, <2>2, <3>1, <4>1
    <3>6. QED
      BY <1>1, <3>3, <3>4, <3>5 DEF Captured
  <2>3. QED
    BY <2>1, <2>2
<1>4. ASSUME NEW c \in Commitments, Captured(c)'
      PROVE  world'[c].state.type \in Awarded
  <2>1. CASE c # a.commitment
    BY <1>3, <1>4, <2>1 DEF ActChanges, CapturedIsAwarded
  <2>2. CASE c = a.commitment /\ t = "Accepted"
    BY <2>2 DEF ActChanges, Awarded
  <2>3. CASE c = a.commitment /\ t = "Cancelled"
    <3>1. HasEffect(c, a.to)
      BY <2>3 DEF HasEffect, KindOf
    <3>2. /\ Len(effects') = n + 1 /\ DOMAIN effects' = 1..(n + 1)
          /\ effects'[n + 1].kind = "cancel" /\ effects'[n + 1].commitment = c
      BY <1>2, <2>3, <3>1 DEF KindOf
    <3>3. PICK i \in 1..(n + 1) :
            /\ effects'[i].kind = "settle"
            /\ \A j \in (i + 1)..(n + 1) :
                 ~(effects'[j].commitment = c /\ effects'[j].kind = "cancel")
      BY <1>4, <3>2 DEF Captured
    <3>4. i # n + 1
      BY <3>2, <3>3
    <3>5. n + 1 \in (i + 1)..(n + 1)
      BY <1>1, <3>4
    <3>6. QED
      BY <3>2, <3>3, <3>5
  <2>4. CASE c = a.commitment /\ t \notin {"Accepted", "Cancelled"}
    <3>1. world[c].state.type \in Awarded
      BY <1>3, <1>4, <2>4 DEF CapturedIsAwarded
    <3>2. QED
      BY <2>4, <3>1, AwardedUntilCancelled DEF ActChanges
  <2>5. QED
    BY <2>1, <2>2, <2>3, <2>4
<1>5. QED
  BY <1>4 DEF CapturedIsAwarded

LEMMA ActKeepsOneAward ==
  ASSUME OneAward, NEW a, NEW at, Act(a, at), UNCHANGED auction
  PROVE  OneAward'
<1> SUFFICES ASSUME AwardedBids(InitialWorld)' = {}, NEW c \in AwardedBids(world)',
                    NEW d \in AwardedBids(world)', c # d
             PROVE  FALSE
  BY DEF OneAward
<1> PICK w : w = MoveIn(world, a, EngineTime(at))
  OBVIOUS
<1>1. world' = w /\ Findings(w) \subseteq Findings(world)
  BY DEF Act, Allowed, SoundAfter
<1>2. AwardedBids(InitialWorld) = {} /\ c \in AwardedBids(w) /\ d \in AwardedBids(w)
  BY <1>1 DEF AwardedBids
<1>3. PICK x : <<"auction-single-award", x>> \in Findings(w)
  BY <1>2, SecondAwardIsFound
<1>4. \E b1, b2 \in AwardedBids(world) : b1 # b2
  BY <1>1, <1>3, SecondAwardIsFound
<1>5. QED
  BY <1>2, <1>4 DEF OneAward

LEMMA NextBids == EngineTyped /\ BidsInv /\ [EngineNext]_engineVars => BidsInv'
<1> SUFFICES ASSUME EngineTyped, BidsInv, [EngineNext]_engineVars PROVE BidsInv'
  OBVIOUS
<1>1. CASE UNCHANGED <<auction, world, effects>>
  BY <1>1 DEF BidsInv, CapturedIsAwarded, Captured, OneAward, AwardedBids
<1>2. ASSUME NEW e \in Events, NEW at \in Times, StepModel(e, at), UNCHANGED auction
      PROVE  BidsInv'
  <2>1. ASSUME NEW a, Asks(e, a), Act(a, at)
        PROVE  BidsInv'
    <3>1. a.to \in States /\ a.actor \in Actors
      BY <2>1, AskedIsMove
    <3>2. CapturedIsAwarded'
      BY <2>1, <3>1, ActIs, ActKeepsCaptured DEF BidsInv
    <3>3. OneAward'
      BY <1>2, <2>1, ActKeepsOneAward DEF BidsInv
    <3>4. QED
      BY <3>2, <3>3 DEF BidsInv
  <2>2. CASE UNCHANGED <<world, effects>>
    BY <1>1, <1>2, <2>2
  <2>3. QED
    BY <1>2, <2>1, <2>2, StepIs DEF SettlementPasses
<1>3. QED
  BY <1>1, <1>2 DEF EngineNext, engineVars

\* The host captures the subject of an auction from one bidder at a time, whatever the
\* stream: what checkAuctionResolution finds in the world keeps the effects right.
THEOREM AuctionCapturesOnce == EngineSpec => []OneCapturedBid
<1>1. EngineInit => BidsInv
  BY LenProperties DEF EngineInit, BidsInv, CapturedIsAwarded, Captured, OneAward
<1>2. BidsInv => OneCapturedBid
  BY DEF BidsInv, CapturedIsAwarded, OneAward, OneCapturedBid, AwardedBids
<1>3. QED
  BY <1>1, <1>2, NextBids, EngineTypes, PTL DEF EngineSpec

-----------------------------------------------------------------------------
(* The effects tell the histories.                                         *)

Owed(c) == {i \in (Len(InitialWorld[c].history) + 1)..Len(world[c].history) :
              HasEffect(c, world[c].history[i].to)}
OwedKinds(c) == [i \in Owed(c) |-> KindOf[world[c].history[i].to.type]]
Told(c) == {i \in DOMAIN effects : effects[i].commitment = c}
ToldKinds(c) == [i \in Told(c) |-> effects[i].kind]

ToldInv ==
  \A c \in Commitments :
    /\ Len(InitialWorld[c].history) \in Nat
    /\ Len(InitialWorld[c].history) <= Len(world[c].history)
    /\ TellTheSame(Owed(c), OwedKinds(c), Told(c), ToldKinds(c))

LEMMA OwedTold ==
  ASSUME EngineTyped, ToldInv, NEW c \in Commitments
  PROVE  /\ IsFiniteSet(Owed(c)) /\ Owed(c) \subseteq 1..Len(world[c].history)
         /\ IsFiniteSet(Told(c)) /\ Told(c) \subseteq 1..Len(effects)
         /\ Len(world[c].history) \in Nat /\ Len(effects) \in Nat
<1>1. Len(effects) \in Nat /\ DOMAIN effects = 1..Len(effects)
  BY LenProperties DEF EngineTyped
<1>2. Len(world[c].history) \in Nat
  BY LenProperties DEF EngineTyped, Commitment
<1>3. Owed(c) \subseteq 1..Len(world[c].history)
  BY <1>2 DEF Owed, ToldInv
<1>4. Told(c) \subseteq 1..Len(effects)
  BY <1>1 DEF Told
<1>5. \A n \in Nat : IsFiniteSet(1..n)
  BY FS_Interval
<1>6. IsFiniteSet(Owed(c)) /\ IsFiniteSet(Told(c))
  BY <1>1, <1>2, <1>3, <1>4, <1>5, FS_Subset
<1>7. QED
  BY <1>1, <1>2, <1>3, <1>4, <1>6

LEMMA ActTellsMover ==
  ASSUME EngineTyped, ToldInv, NEW a, a.to \in States, NEW at, ActChanges(a, at)
  PROVE  LET c == a.commitment
         IN TellTheSame(Owed(c)', OwedKinds(c)', Told(c)', ToldKinds(c)')
<1>0. PICK c, n, m, k, h : /\ c = a.commitment /\ n = Len(world[c].history) /\ m = Len(effects)
                          /\ k = Len(InitialWorld[c].history) /\ h = world'[c].history
  OBVIOUS
<1>a. PICK owed, owed2, kinds, kinds2 :
        /\ owed = Owed(c) /\ owed2 = Owed(c)' /\ kinds = OwedKinds(c) /\ kinds2 = OwedKinds(c)'
  OBVIOUS
<1>b. PICK told, told2, said, said2 :
        /\ told = Told(c) /\ told2 = Told(c)' /\ said = ToldKinds(c) /\ said2 = ToldKinds(c)'
  OBVIOUS
<1>1. /\ c \in Commitments /\ n \in Nat /\ m \in Nat /\ k \in Nat /\ k <= n
      /\ IsFiniteSet(owed) /\ owed \subseteq 1..n
      /\ IsFiniteSet(told) /\ told \subseteq 1..m
      /\ TellTheSame(owed, kinds, told, said)
  BY <1>0, <1>a, <1>b, OwedTold DEF ActChanges, ToldInv
<1>2. /\ Len(h) = n + 1 /\ h[n + 1].to = a.to
      /\ \A i \in 1..n : h[i] = world[c].history[i]
  BY <1>0 DEF ActChanges
<1>3. owed2 = {i \in (k + 1)..(n + 1) : HasEffect(c, h[i].to)}
  <2>1. Len(InitialWorld[c].history)' = k
    BY <1>0 DEF InitialWorld
  <2>2. QED
    BY <1>0, <1>a, <1>2, <2>1 DEF Owed
<1>4. \A i \in 1..n : i \in owed2 <=> i \in owed
  <2>1. \A i : i \in owed <=> i \in (k + 1)..n /\ HasEffect(c, world[c].history[i].to)
    BY <1>0, <1>a, Zenon DEF Owed
  <2>2. \A i : i \in owed2 <=> i \in (k + 1)..(n + 1) /\ HasEffect(c, h[i].to)
    BY <1>3
  <2>3. \A i \in 1..n : i \in (k + 1)..(n + 1) <=> i \in (k + 1)..n
    BY <1>1
  <2>4. QED
    BY <1>2, <2>1, <2>2, <2>3
<1>5. n + 1 \in owed2 <=> HasEffect(c, a.to)
  <2>1. n + 1 \in (k + 1)..(n + 1)
    BY <1>1
  <2>2. QED
    BY <1>2, <1>3, <2>1, Zenon
<1>6. owed2 \subseteq 1..(n + 1)
  BY <1>1, <1>3
<1>7. /\ \A i \in owed : kinds2[i] = kinds[i]
      /\ n + 1 \in owed2 => kinds2[n + 1] = KindOf[a.to.type]
  <2>1. \A i \in owed2 : kinds2[i] = KindOf[h[i].to.type]
    BY <1>0, <1>a DEF OwedKinds
  <2>2. \A i \in owed : kinds[i] = KindOf[world[c].history[i].to.type]
    BY <1>0, <1>a DEF OwedKinds
  <2>3. \A i \in owed : i \in 1..n /\ i \in owed2
    BY <1>1, <1>4
  <2>4. QED
    BY <1>2, <2>1, <2>2, <2>3
<1>8. CASE ~HasEffect(c, a.to)
  <2>1. owed2 = owed
    <3>1. n + 1 \notin owed2
      BY <1>5, <1>8
    <3>2. owed2 \subseteq 1..n
      BY <1>1, <1>6, <3>1
    <3>3. QED
      BY <1>1, <1>4, <3>2
  <2>2. effects' = effects
    BY <1>0, <1>8 DEF ActChanges
  <2>3. told2 = told /\ said2 = said
    BY <1>b, <2>2 DEF Told, ToldKinds
  <2>4. TellTheSame(owed, kinds2, told, said2)
    <3>1. TellTheSame(owed, kinds, told, said) /\ (\A i \in owed : kinds2[i] = kinds[i])
      BY <1>1, <1>7
    <3>2. \A j \in told : said2[j] = said[j]
      BY <2>3
    <3>3. QED
      BY <3>1, <3>2, TellLikewise
  <2>5. QED
    BY <1>0, <1>a, <1>b, <2>1, <2>3, <2>4
<1>9. CASE HasEffect(c, a.to)
  <2>1. owed2 = owed \cup {n + 1}
    <3>1. n + 1 \in owed2
      BY <1>5, <1>9
    <3>2. \A i \in 1..(n + 1) : i \in 1..n \/ i = n + 1
      BY <1>1
    <3>3. QED
      BY <1>1, <1>4, <1>6, <3>1, <3>2
  <2>2. PICK x \in EffectRecords :
          effects' = Append(effects, x) /\ x.kind = KindOf[a.to.type] /\ x.commitment = c
    BY <1>0, <1>9 DEF ActChanges
  <2>3. /\ DOMAIN effects' = 1..(m + 1) /\ DOMAIN effects = 1..m
        /\ \A i \in 1..m : effects'[i] = effects[i]
        /\ effects'[m + 1] = x
    <3>1. effects \in Seq(EffectRecords)
      BY DEF EngineTyped
    <3>2. /\ effects' \in Seq(EffectRecords) /\ Len(effects') = m + 1
          /\ \A i \in 1..m : effects'[i] = effects[i]
          /\ effects'[m + 1] = x
      BY <1>0, <2>2, <3>1, AppendProperties
    <3>3. QED
      BY <1>0, <3>1, <3>2, LenProperties
  <2>4. told2 = told \cup {m + 1}
    BY <1>b, <1>1, <2>2, <2>3 DEF Told
  <2>5. /\ \A j \in told : said2[j] = said[j]
        /\ said2[m + 1] = KindOf[a.to.type]
    BY <1>b, <1>1, <2>2, <2>3, <2>4 DEF ToldKinds
  <2>6. kinds2[n + 1] = said2[m + 1]
    BY <1>5, <1>7, <1>9, <2>5
  <2>7. TellTheSame(owed \cup {n + 1}, kinds2, told \cup {m + 1}, said2)
    <3>0. PICK p, q : p = n + 1 /\ q = m + 1
      OBVIOUS
    <3>1. /\ owed \subseteq Int /\ told \subseteq Int /\ p \in Int /\ q \in Int
          /\ \A i \in owed : i < p
          /\ \A j \in told : j < q
      BY <3>0, <1>1
    <3>2. /\ IsFiniteSet(owed) /\ IsFiniteSet(told) /\ TellTheSame(owed, kinds, told, said)
          /\ \A i \in owed : kinds2[i] = kinds[i]
          /\ \A j \in told : said2[j] = said[j]
          /\ kinds2[p] = said2[q]
      BY <3>0, <1>1, <1>7, <2>5, <2>6
    <3>3. TellTheSame(owed \cup {p}, kinds2, told \cup {q}, said2)
      BY <3>1, <3>2, TellOneMore, ZenonT(60)
    <3>4. QED
      BY <3>0, <3>3
  <2>8. QED
    BY <1>0, <1>a, <1>b, <2>1, <2>4, <2>7
<1>10. QED
  BY <1>0, <1>a, <1>b, <1>8, <1>9

LEMMA ActTellsOthers ==
  ASSUME EngineTyped, ToldInv, NEW a, a.to \in States, NEW at, ActChanges(a, at),
         NEW c \in Commitments, c # a.commitment
  PROVE  TellTheSame(Owed(c)', OwedKinds(c)', Told(c)', ToldKinds(c)')
<1>1. world'[c] = world[c]
  BY DEF ActChanges
<1>2. Owed(c)' = Owed(c) /\ OwedKinds(c)' = OwedKinds(c)
  BY <1>1 DEF Owed, OwedKinds, InitialWorld
<1>3. Told(c)' = Told(c) /\ \A j \in Told(c) : ToldKinds(c)'[j] = ToldKinds(c)[j]
  <2>1. CASE effects' = effects
    BY <2>1 DEF Told, ToldKinds
  <2>2. CASE effects' # effects
    <3> PICK m : m = Len(effects)
      OBVIOUS
    <3>1. effects \in Seq(EffectRecords)
      BY DEF EngineTyped
    <3>2. PICK x \in EffectRecords : effects' = Append(effects, x) /\ x.commitment = a.commitment
      BY <2>2 DEF ActChanges
    <3>3. /\ effects' \in Seq(EffectRecords) /\ Len(effects') = m + 1
          /\ \A i \in 1..m : effects'[i] = effects[i]
          /\ effects'[m + 1] = x
      BY <3>1, <3>2, AppendProperties
    <3>4. DOMAIN effects = 1..m /\ DOMAIN effects' = 1..(m + 1) /\ m \in Nat
      BY <3>1, <3>3, LenProperties
    <3>5. Told(c)' = Told(c)
      BY <3>2, <3>3, <3>4 DEF Told
    <3>6. Told(c) \subseteq 1..m
      BY <3>4 DEF Told
    <3>7. QED
      BY <3>3, <3>5, <3>6 DEF ToldKinds
  <2>3. QED
    BY <2>1, <2>2
<1>4. QED
  BY <1>2, <1>3, TellLikewise DEF ToldInv

LEMMA InitTold == EngineInit => ToldInv
<1> SUFFICES ASSUME EngineInit, NEW c \in Commitments
             PROVE  /\ Len(InitialWorld[c].history) \in Nat
                    /\ Len(InitialWorld[c].history) <= Len(world[c].history)
                    /\ TellTheSame(Owed(c), OwedKinds(c), Told(c), ToldKinds(c))
  BY DEF ToldInv
<1>1. world = InitialWorld /\ world[c] \in Commitment
  BY InitEngineTyped DEF EngineInit, EngineTyped
<1>2. Len(world[c].history) \in Nat
  BY <1>1, LenProperties DEF Commitment
<1>3. Owed(c) = {}
  BY <1>1, <1>2 DEF Owed
<1>4. Told(c) = {}
  BY DEF Told, EngineInit
<1>5. QED
  BY <1>1, <1>2, <1>3, <1>4, TellNothing

LEMMA NextTold == EngineTyped /\ ToldInv /\ [EngineNext]_engineVars => ToldInv'
<1> SUFFICES ASSUME EngineTyped, ToldInv, [EngineNext]_engineVars PROVE ToldInv'
  OBVIOUS
<1>1. CASE UNCHANGED <<world, effects>>
  BY <1>1 DEF ToldInv, Owed, OwedKinds, Told, ToldKinds, InitialWorld
<1>2. ASSUME NEW a, a.to \in States, a.actor \in Actors, NEW at \in Times, Act(a, at)
      PROVE  ToldInv'
  <2>1. ActChanges(a, at)
    BY <1>2, ActIs
  <2>2. ASSUME NEW c \in Commitments
        PROVE  /\ Len(InitialWorld[c].history)' \in Nat
               /\ Len(InitialWorld[c].history)' <= Len(world[c].history)'
               /\ TellTheSame(Owed(c)', OwedKinds(c)', Told(c)', ToldKinds(c)')
    <3> PICK k, n : k = Len(InitialWorld[c].history) /\ n = Len(world[c].history)
      OBVIOUS
    <3>1. k \in Nat /\ n \in Nat /\ k <= n
      BY OwedTold DEF ToldInv
    <3>2. Len(world'[c].history) \in {n, n + 1}
      BY <2>1 DEF ActChanges
    <3>3. Len(InitialWorld[c].history)' = k
      BY DEF InitialWorld
    <3>4. k <= Len(world'[c].history)
      BY <3>1, <3>2
    <3>5. TellTheSame(Owed(c)', OwedKinds(c)', Told(c)', ToldKinds(c)')
      BY <1>2, <2>1, ActTellsMover, ActTellsOthers
    <3>6. QED
      BY <3>1, <3>3, <3>4, <3>5
  <2>3. QED
    BY <2>2 DEF ToldInv, TellTheSame
<1>3. ASSUME NEW e \in Events, NEW at \in Times, StepModel(e, at)
      PROVE  ToldInv'
  BY <1>1, <1>2, <1>3, AskedIsMove, StepIs DEF SettlementPasses
<1>4. QED
  BY <1>1, <1>3 DEF EngineNext, engineVars

\* Whatever the stream, the host is told each move of a commitment once and in order,
\* and nothing of an event that was blocked.
THEOREM EffectsTell == EngineSpec => []EffectsTellMoves
<1>1. ToldInv => EffectsTellMoves
  BY DEF ToldInv, EffectsTellMoves, Owed, OwedKinds, Told, ToldKinds
<1>2. QED
  BY <1>1, InitTold, NextTold, EngineTypes, PTL DEF EngineSpec
=============================================================================
