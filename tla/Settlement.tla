----------------------------- MODULE Settlement -----------------------------
(***************************************************************************)
(* createSettlementTracker: partial settlements of one committed total.    *)
(* Each is a breakdown that adds up; the tracker sums the declared totals  *)
(* and caps the sum.                                                       *)
(***************************************************************************)
EXTENDS Pricing

CONSTANTS
  Due,             \* the committed total
  Partials,        \* the breakdowns that may be presented
  MaxSettlements   \* bound: no more accepted settlements than this

ASSUME PartialsAssumption ==
  /\ None \notin Int
  /\ Due \in Money
  /\ \A part \in Partials : part.total.amount \in Int /\ IsListOfParts(part.components)

VARIABLES
  settled,  \* the sum of the declared totals, or None before the first
  count,    \* how many settlements make it up
  lines     \* history variable: the sum of all components of those settlements

settlementVars == <<settled, count, lines>>

SettledSoFar == IF settled = None THEN 0 ELSE settled

\* progress()
Remaining == IF SettledSoFar > Due.amount THEN 0 ELSE Due.amount - SettledSoFar
FullySettled == MoneyEquals(SettledSoFar, Due.amount)

\* Slip: the cap is on each settlement by itself.
OverSettlesAlone(part) ==
  part.total.amount > Due.amount /\ ~MoneyEquals(part.total.amount, Due.amount)

OverSettles(part) ==
  LET cumulative == SettledSoFar + part.total.amount
  IN cumulative > Due.amount /\ ~MoneyEquals(cumulative, Due.amount)

MaySettle(part) == part.total.currency = Due.currency /\ AddsUp(part) /\ ~OverSettles(part)

Settle(part) ==
  /\ count < MaxSettlements
  /\ MaySettle(part)
  /\ settled' = SettledSoFar + part.total.amount
  /\ count' = count + 1
  /\ lines' = lines + SumComponents(part.components)

RefuseSettlement(part) == ~MaySettle(part) /\ UNCHANGED settlementVars

SettlementInit == settled = None /\ count = 0 /\ lines = 0

SettlementNext == \E part \in Partials : Settle(part) \/ RefuseSettlement(part)

SettlementSpec == SettlementInit /\ [][SettlementNext]_settlementVars

-----------------------------------------------------------------------------
(* Properties.                                                             *)

\* The tolerance of the total is used once, however many settlements make it up; what
\* their lines add up to can drift by less than one more tolerance for each of them.  And
\* what progress() reports as remaining can be settled in one line, completing the total.
SettledWithinDue ==
  /\ SettledSoFar < Due.amount + Eps
  /\ lines < Due.amount + (count + 1) * Eps
  /\ LET line == [kind |-> "Base", amount |-> Remaining, currency |-> Due.currency,
                  jurisdiction |-> None, rate |-> None]
     IN /\ MaySettle([total |-> [amount |-> Remaining, currency |-> Due.currency],
                      components |-> <<line>>])
        /\ MoneyEquals(SettledSoFar + Remaining, Due.amount)
=============================================================================
