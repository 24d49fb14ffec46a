------------------------------- MODULE Pricing -------------------------------
(***************************************************************************)
(* Money beyond a single amount: breakdowns, components that must add up   *)
(* to a declared total; the settlement of a commitment by one; regulatory  *)
(* packs that say which tax rates a jurisdiction permits; and prices that  *)
(* are conceded from an opening price down to a floor.  No variables.      *)
(* Component amounts are integers (a discount is negative), rates percents.*)
(***************************************************************************)
EXTENDS CommerceModel, SequencesExt

\* The amounts of the parts whose positions are in S.
SumOver(parts, S) == SumFunctionOnSet([i \in DOMAIN parts |-> parts[i].amount], S)

SumComponents(parts) == SumOver(parts, DOMAIN parts)

IsTax(part) == part.kind = "Tax"

\* componentTotal, and the taxable base: everything that is not tax.
ComponentTotal(breakdown, kind) ==
  SumOver(breakdown.components,
          {i \in DOMAIN breakdown.components : breakdown.components[i].kind = kind})
TaxableBase(breakdown) ==
  SumOver(breakdown.components,
          {i \in DOMAIN breakdown.components : ~IsTax(breakdown.components[i])})

\* What every list of components is: finitely many, each with an amount.
IsListOfParts(parts) ==
  IsFiniteSet(DOMAIN parts) /\ \A i \in DOMAIN parts : parts[i].amount \in Int

\* validateMoneyBreakdown: one currency, and the sum is the total.
AddsUp(breakdown) ==
  /\ \A i \in DOMAIN breakdown.components :
       breakdown.components[i].currency = breakdown.total.currency
  /\ MoneyEquals(SumComponents(breakdown.components), breakdown.total.amount)

\* validateSettlement: the total is what was committed, and the components add up.
ValidSettlement(breakdown, committed) ==
  /\ breakdown.total.currency = committed.currency
  /\ MoneyEquals(breakdown.total.amount, committed.amount)
  /\ AddsUp(breakdown)

-----------------------------------------------------------------------------
(* A pack is a function from jurisdictions to sets of permitted rates.     *)

\* Slip: the declared rate is looked up, the declared amount is believed.
PermittedRate(part, pack, base) ==
  /\ part.jurisdiction # None /\ part.rate # None
  /\ part.jurisdiction \in DOMAIN pack
  /\ part.rate \in pack[part.jurisdiction]

\* The tax line names a covered jurisdiction, one of its rates, and amounts to the
\* rate times the base (compared in hundredths, so that nothing is rounded).
PermittedTax(part, pack, base) ==
  /\ part.jurisdiction # None /\ part.rate # None
  /\ part.jurisdiction \in DOMAIN pack
  /\ part.rate \in pack[part.jurisdiction]
  /\ LET excess == 100 * part.amount - base * part.rate
     IN excess < 100 * Eps /\ -excess < 100 * Eps

CheckSettlementPolicy(breakdown, committed, pack) ==
  /\ ValidSettlement(breakdown, committed)
  /\ \A i \in DOMAIN breakdown.components :
       IsTax(breakdown.components[i])
         => PermittedTax(breakdown.components[i], pack, TaxableBase(breakdown))

-----------------------------------------------------------------------------
(* Bounds are records [floor, committed]; committed may be left out.       *)

TargetOf == [offer |-> "Proposed", counter |-> "Modified", accept |-> "Accepted"]

OpeningPrice(b, c) == IF b.committed # NoMoney THEN b.committed ELSE Committed[c]

\* What makes guardConcession throw.
Malformed(b, c) ==
  \/ c \notin Commitments
  \/ OpeningPrice(b, c) = NoMoney
  \/ OpeningPrice(b, c).currency # b.floor.currency
  \/ OpeningPrice(b, c).amount < b.floor.amount

Conceded(opening, price) == IF price > opening THEN 0 ELSE opening - price

\* Slip: the tolerance is granted twice.
OverConcessionByEps(opening, floor, price) ==
  Conceded(opening, price) > opening - floor + 2 * Eps

\* isOverConcession: more is given back than the budget, beyond the tolerance.
OverConcession(opening, floor, price) ==
  LET discount == Conceded(opening, price)
      budget   == opening - floor
  IN discount > budget /\ ~MoneyEquals(discount, budget)

=============================================================================
