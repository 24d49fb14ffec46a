------------------------------ MODULE ToolProofs ------------------------------
(***************************************************************************)
(* Theorems about the tools around the session, each for every input the   *)
(* tool may be given: partial settlements, split fulfillment, negotiation, *)
(* the merging of sources, migrations, the protocol bridge with its        *)
(* metrics, the coverage gate, the state search, the platform adapters and *)
(* the order builder.                                                      *)
(***************************************************************************)
EXTENDS Negotiation, Settlement, Split, Interop, Migration, Protocols, Coverage,
        Verifier, Adapters, SessionProofs

LEMMA ProductNat == \A a, b \in Nat : a * b \in Nat
OBVIOUS

-----------------------------------------------------------------------------
(* Settlement.  The lines of a settlement may miss its declared total by less than the *)
(* tolerance, so what they add up to is bounded through the sum of the totals.         *)

SettlementInv ==
  /\ settled \in Int \cup {None} /\ count \in Nat /\ lines \in Int
  /\ lines <= SettledSoFar + count * Eps
  /\ SettledSoFar < Due.amount + Eps

\* The sum of a list of parts is an integer.
LEMMA ComponentsSumType ==
  ASSUME NEW parts, IsListOfParts(parts)
  PROVE  SumComponents(parts) \in Int
<1> DEFINE amounts == [i \in DOMAIN parts |-> parts[i].amount]
<1>1. IsFiniteSet(DOMAIN parts) /\ \A i \in DOMAIN parts : amounts[i] \in Int
  BY DEF IsListOfParts
<1> HIDE DEF amounts
<1>2. SumFunctionOnSet(amounts, DOMAIN parts) \in Int
  BY <1>1, SumType
<1>3. QED
  BY <1>2 DEF SumComponents, SumOver, amounts

\* The sum of one line is the line.
LEMMA OneComponent ==
  ASSUME NEW line, line.amount \in Int
  PROVE  SumComponents(<<line>>) = line.amount
<1> DEFINE parts == <<line>>
           amounts == [i \in DOMAIN parts |-> parts[i].amount]
<1>1. DOMAIN parts = {1} /\ amounts[1] = line.amount
  OBVIOUS
<1> HIDE DEF amounts
<1>2. SumFunctionOnSet(amounts, {1}) = amounts[1]
  BY <1>1, SumSingleton
<1>3. QED
  BY <1>1, <1>2 DEF SumComponents, SumOver, amounts

\* The invariant leaves room for exactly what progress() reports.
LEMMA RemainderSettles == SettlementInv => SettledWithinDue
<1> SUFFICES ASSUME SettlementInv PROVE SettledWithinDue
  OBVIOUS
<1> DEFINE line == [kind |-> "Base", amount |-> Remaining, currency |-> Due.currency,
                    jurisdiction |-> None, rate |-> None]
           part == [total |-> [amount |-> Remaining, currency |-> Due.currency],
                    components |-> <<line>>]
<1>1. /\ Due.amount \in Nat /\ Eps \in Nat \ {0} /\ SettledSoFar \in Int
      /\ SettledSoFar < Due.amount + Eps
  BY PartialsAssumption, MoneyAssumption DEF SettlementInv, Money, SettledSoFar
<1>2. /\ Remaining \in Int
      /\ SettledSoFar > Due.amount => Remaining = 0
      /\ ~(SettledSoFar > Due.amount) => SettledSoFar + Remaining = Due.amount
  BY <1>1 DEF Remaining
<1>3. lines < Due.amount + (count + 1) * Eps
  <2> DEFINE drift == count * Eps
  <2>1. drift \in Nat /\ (count + 1) * Eps = drift + Eps
    BY <1>1 DEF SettlementInv
  <2> HIDE DEF drift
  <2>2. lines \in Int /\ lines <= SettledSoFar + drift
    BY DEF SettlementInv, drift
  <2>3. QED
    BY <1>1, <2>1, <2>2
<1>4. AddsUp(part)
  <2>1. SumComponents(<<line>>) = Remaining
    BY <1>2, OneComponent
  <2>2. \A i \in DOMAIN <<line>> : <<line>>[i].currency = Due.currency
    OBVIOUS
  <2>3. MoneyEquals(Remaining, Remaining)
    BY <1>1, <1>2 DEF MoneyEquals
  <2>4. QED
    BY <2>1, <2>2, <2>3 DEF AddsUp
<1>5. ~OverSettles(part) /\ MoneyEquals(SettledSoFar + Remaining, Due.amount)
  <2>1. MoneyEquals(SettledSoFar + Remaining, Due.amount)
    BY <1>1, <1>2 DEF MoneyEquals
  <2>2. QED
    BY <2>1 DEF OverSettles
<1>6. MaySettle(part)
  BY <1>4, <1>5 DEF MaySettle
<1>7. QED
  BY <1>1, <1>3, <1>5, <1>6 DEF SettledWithinDue

\* Partial settlements together stay within what is due, to the tolerance once, and what
\* progress() reports as remaining can be settled: createSettlementTracker.
THEOREM SettlesWithinDue == SettlementSpec => []SettledWithinDue
<1>1. SettlementInit => SettlementInv
  <2> SUFFICES ASSUME SettlementInit PROVE SettlementInv
    OBVIOUS
  <2>1. SettledSoFar = 0 /\ count = 0 /\ lines = 0 /\ settled = None
    BY DEF SettlementInit, SettledSoFar
  <2>2. Due.amount \in Nat /\ Eps \in Nat \ {0}
    BY PartialsAssumption, MoneyAssumption DEF Money
  <2>3. QED
    BY <2>1, <2>2 DEF SettlementInv
<1>2. SettlementInv /\ [SettlementNext]_settlementVars => SettlementInv'
  <2> SUFFICES ASSUME SettlementInv, [SettlementNext]_settlementVars PROVE SettlementInv'
    OBVIOUS
  <2>1. CASE UNCHANGED settlementVars
    BY <2>1 DEF settlementVars, SettlementInv, SettledSoFar
  <2>2. ASSUME NEW part \in Partials, Settle(part) PROVE SettlementInv'
    <3> DEFINE parts == SumComponents(part.components)
               total == part.total.amount
               drift == count * Eps
    <3>1. /\ Due.amount \in Nat /\ Eps \in Nat \ {0} /\ SettledSoFar \in Int
          /\ total \in Int /\ count \in Nat /\ lines \in Int
      BY PartialsAssumption, MoneyAssumption DEF SettlementInv, Money, SettledSoFar
    <3>2. parts \in Int
      BY PartialsAssumption, ComponentsSumType
    <3>3. MoneyEquals(parts, total) /\ ~OverSettles(part)
      BY <2>2 DEF Settle, MaySettle, AddsUp
    <3>4. /\ settled' = SettledSoFar + total /\ count' = count + 1 /\ lines' = lines + parts
          /\ settled' \in Int
      BY <2>2, <3>1 DEF Settle
    <3>5. SettledSoFar' = SettledSoFar + total
      BY <3>1, <3>4, PartialsAssumption DEF SettledSoFar
    <3>6. drift \in Nat /\ count' * Eps = drift + Eps /\ lines <= SettledSoFar + drift
      BY <3>1, <3>4 DEF SettlementInv
    <3> HIDE DEF drift
    <3>7. SettledSoFar' < Due.amount + Eps
      <4>1. SettledSoFar' > Due.amount => MoneyEquals(SettledSoFar', Due.amount)
        BY <3>3, <3>5, Zenon DEF OverSettles
      <4>2. SettledSoFar' \in Int
        BY <3>1, <3>5
      <4>3. QED
        BY <3>1, <4>1, <4>2 DEF MoneyEquals
    <3> HIDE DEF parts, total
    <3>8. lines' <= SettledSoFar' + count' * Eps
      BY <3>1, <3>2, <3>3, <3>4, <3>5, <3>6 DEF MoneyEquals
    <3>9. QED
      BY <3>1, <3>2, <3>4, <3>7, <3>8 DEF SettlementInv
  <2>3. QED
    BY <2>1, <2>2 DEF SettlementNext, RefuseSettlement
<1>3. QED
  BY <1>1, <1>2, RemainderSettles, PTL DEF SettlementSpec

-----------------------------------------------------------------------------
(* Split fulfillment.  Every recorded share is Money in the currency of the whole, and *)
(* the cap was asked of the running total, which is their sum.                         *)

SplitInv ==
  /\ whole \in Money \cup {NoMoney}
  /\ weights # <<>> => weights \in Seq(Nat) /\ whole # NoMoney /\ CanAllocate(weights)
  /\ children \in Seq(Money)
  /\ tally \in Nat /\ tally = SumShares(children)
  /\ children # <<>> =>
       /\ whole # NoMoney
       /\ \A i \in DOMAIN children : children[i].currency = whole.currency
       /\ tally < whole.amount + Eps

LEMMA FiniteIntervals == \A n \in Nat : IsFiniteSet(1..n)
BY FS_Interval

\* The sum of the shares grows by the share that is appended.
LEMMA SharesGrow ==
  ASSUME NEW shares \in Seq(Money), NEW share \in Money
  PROVE  /\ SumShares(shares) \in Nat
         /\ SumShares(Append(shares, share)) = SumShares(shares) + share.amount
<1> DEFINE n == Len(shares)
           more == Append(shares, share)
           f == [i \in DOMAIN shares |-> shares[i].amount]
           g == [i \in DOMAIN more |-> more[i].amount]
<1>1. n \in Nat /\ DOMAIN shares = 1..n /\ \A i \in 1..n : shares[i] \in Money
  BY LenProperties, ElementOfSeq
<1>2. /\ DOMAIN more = 1..(n + 1) /\ more[n + 1] = share
      /\ \A i \in 1..n : more[i] = shares[i]
  BY <1>1, AppendProperties, LenProperties
<1>3. /\ 1..(n + 1) = 1..n \cup {n + 1} /\ n + 1 \notin 1..n /\ IsFiniteSet(1..n)
      /\ IsFiniteSet(DOMAIN shares)
  BY <1>1, FiniteIntervals
<1>4. /\ \A i \in 1..n : f[i] \in Nat /\ g[i] = f[i]
      /\ g[n + 1] = share.amount /\ share.amount \in Nat
  BY <1>1, <1>2 DEF Money
<1> HIDE DEF n, f, g, more
<1>5. SumFunctionOnSet(f, 1..n) \in Nat
  BY <1>3, <1>4, SumNat
<1>6. SumFunctionOnSet(g, 1..n) = SumFunctionOnSet(f, 1..n)
  BY <1>3, <1>4, SumCongruent
<1>7. SumFunctionOnSet(g, 1..n \cup {n + 1}) = g[n + 1] + SumFunctionOnSet(g, 1..n)
  <2>1. \A i \in 1..n \cup {n + 1} : g[i] \in Int
    BY <1>4
  <2>2. QED
    BY <1>3, <2>1, SumInsert
<1>8. SumShares(shares) = SumFunctionOnSet(f, 1..n)
  BY <1>1 DEF SumShares, f
<1>9. SumShares(more) = SumFunctionOnSet(g, 1..n \cup {n + 1})
  BY <1>2, <1>3 DEF SumShares, g
<1>10. QED
  BY <1>4, <1>5, <1>6, <1>7, <1>8, <1>9 DEF more

\* What allocate() cuts off is Money in the currency of the total.
LEMMA AllocatedShare ==
  ASSUME NEW total \in Money, NEW ws \in Seq(Nat), CanAllocate(ws), NEW i \in DOMAIN ws
  PROVE  /\ Allocate(total, ws)[i] \in Money
         /\ Allocate(total, ws)[i].currency = total.currency
<1> DEFINE minor == MinorUnits(total)
           sum == SumOfAll(ws)
           part == Part(ws, minor, i)
<1>1. DOMAIN ws = 1..Len(ws) /\ Len(ws) \in Nat /\ \A j \in DOMAIN ws : ws[j] \in Nat
  BY LenProperties, ElementOfSeq
<1>2. sum \in Nat /\ sum > 0
  <2>1. IsFiniteSet(DOMAIN ws)
    BY <1>1, FiniteIntervals
  <2>2. SumFunctionOnSet(ws, DOMAIN ws) \in Nat
    BY <1>1, <2>1, SumNat
  <2>3. QED
    BY <2>2 DEF SumOfAll, CanAllocate
<1>3. minor \in Nat
  <2>1. total.amount + Eps \in Nat /\ 2 * Eps \in Nat /\ 2 * Eps > 0
    BY MoneyAssumption DEF Money
  <2>2. \A a, b \in Nat : b > 0 => a \div b \in Nat
    OBVIOUS
  <2>3. QED
    BY <2>1, <2>2 DEF MinorUnits
<1>4. part \in Nat
  <2> HIDE DEF minor, sum
  <2>1. minor * ws[i] \in Nat
    BY <1>1, <1>3, ProductNat
  <2>2. \A a, b \in Nat : b > 0 => a \div b \in Nat
    OBVIOUS
  <2>3. (minor * ws[i]) \div sum \in Nat
    BY <1>2, <2>1, <2>2
  <2>4. \A n \in Nat : \A b : n + (IF b THEN 1 ELSE 0) \in Nat
    OBVIOUS
  <2>5. \E n \in Nat : \E b : part = n + (IF b THEN 1 ELSE 0)
    BY <2>3 DEF Part, sum
  <2>6. QED
    BY <2>4, <2>5
<1>5. 2 * Eps * part \in Nat
  <2>1. 2 * Eps \in Nat
    BY MoneyAssumption
  <2>2. QED
    BY <1>4, <2>1, ProductNat
<1>6. Allocate(total, ws)[i] = [amount |-> 2 * Eps * part, currency |-> total.currency]
  BY DEF Allocate
<1>7. QED
  BY <1>5, <1>6 DEF Money

\* A share that is recorded is Money in the currency of the whole.
LEMMA RecordedShare ==
  ASSUME SplitInv, NEW share, Comes(share), Comparable(share)
  PROVE  whole \in Money /\ share \in Money /\ share.currency = whole.currency
<1>1. whole \in Money /\ share.currency = whole.currency
  BY DEF Comparable, SplitInv
<1>2. CASE weights = <<>>
  BY <1>1, <1>2, SharesAssumption DEF Comes, Comparable
<1>3. CASE weights # <<>>
  <2>1. weights \in Seq(Nat) /\ CanAllocate(weights) /\ Len(children) \in Nat
    BY <1>3, LenProperties DEF SplitInv
  <2>2. Len(children) + 1 \in DOMAIN weights
    BY <1>3, <2>1, LenProperties DEF Comes
  <2>3. QED
    BY <1>1, <1>3, <2>1, <2>2, AllocatedShare DEF Comes
<1>4. QED
  BY <1>2, <1>3

\* Recording a share the cap admits keeps the invariant.
LEMMA AllocateShareKeeps ==
  ASSUME SplitInv, NEW share, Comes(share), AllocateShare(share), UNCHANGED <<whole, weights>>
  PROVE  SplitInv'
<1>1. /\ whole \in Money /\ share \in Money /\ share.currency = whole.currency
      /\ whole # NoMoney /\ ~OverAllocates(tally + share.amount)
  BY RecordedShare DEF AllocateShare, Admits, Comparable
<1>2. /\ children' = Append(children, share) /\ tally' = tally + share.amount
      /\ children \in Seq(Money)
  BY DEF AllocateShare, SplitInv
<1>3. children' \in Seq(Money) /\ tally' \in Nat /\ tally' = SumShares(children')
  <2>1. tally \in Nat /\ tally = SumShares(children) /\ share.amount \in Nat
    BY <1>1 DEF SplitInv, Money
  <2>2. SumShares(children') = SumShares(children) + share.amount
    BY <1>1, <1>2, SharesGrow, Zenon
  <2>3. children' \in Seq(Money)
    BY <1>1, <1>2
  <2>4. QED
    BY <1>2, <2>1, <2>2, <2>3
<1>4. \A i \in DOMAIN children' : children'[i].currency = whole.currency
  <2> SUFFICES ASSUME NEW i \in DOMAIN children' PROVE children'[i].currency = whole.currency
    OBVIOUS
  <2>1. /\ Len(children) \in Nat /\ DOMAIN children = 1..Len(children)
        /\ DOMAIN children' = 1..(Len(children) + 1)
        /\ children'[Len(children) + 1] = share
        /\ \A j \in 1..Len(children) : children'[j] = children[j]
    BY <1>1, <1>2, AppendProperties, LenProperties
  <2>2. CASE i = Len(children) + 1
    BY <1>1, <2>1, <2>2
  <2>3. CASE i \in 1..Len(children)
    <3>1. children # <<>>
      BY <2>1, <2>3
    <3>2. QED
      BY <2>1, <2>3, <3>1 DEF SplitInv
  <2>4. QED
    BY <2>1, <2>2, <2>3
<1>5. tally' < whole.amount + Eps
  <2>1. whole.amount \in Nat /\ Eps \in Nat \ {0}
    BY <1>1, MoneyAssumption DEF Money
  <2>2. QED
    BY <1>1, <1>2, <1>3, <2>1 DEF OverAllocates, MoneyEquals
<1>6. QED
  BY <1>1, <1>3, <1>4, <1>5 DEF SplitInv

LEMMA SplitKeeps == SplitInv /\ [SplitNext]_splitVars => SplitInv'
<1> SUFFICES ASSUME SplitInv, [SplitNext]_splitVars PROVE SplitInv'
  OBVIOUS
<1>1. CASE UNCHANGED splitVars
  BY <1>1 DEF splitVars, SplitInv
<1>2. ASSUME NEW share, Comes(share), AllocateShare(share), UNCHANGED <<whole, weights>>
      PROVE  SplitInv'
  BY <1>2, AllocateShareKeeps
<1>3. ASSUME NEW share, RefuseShare(share), UNCHANGED <<whole, weights>> PROVE SplitInv'
  BY <1>3 DEF RefuseShare, SplitInv
<1>4. QED
  BY <1>1, <1>2, <1>3 DEF SplitNext, ShareOut

LEMMA SplitInitInv == SplitInit => SplitInv
<1> SUFFICES ASSUME SplitInit PROVE SplitInv
  OBVIOUS
<1>1. SumShares(<<>>) = 0
  <2>1. DOMAIN <<>> = {}
    OBVIOUS
  <2>2. QED
    BY <2>1, SumEmpty DEF SumShares
<1>2. children = <<>> /\ children \in Seq(Money) /\ tally = 0
  BY DEF SplitInit
<1>3. QED
  BY <1>1, <1>2, SharesAssumption DEF SplitInit, SplitInv

\* A tree whose running total leaves nothing reconciles.
LEMMA NothingLeftReconciles ==
  SplitInv => (children # <<>> /\ Left(tally) = 0 => Reconciles(children))
<1> SUFFICES ASSUME SplitInv, children # <<>>, Left(tally) = 0 PROVE Reconciles(children)
  OBVIOUS
<1>1. /\ whole.amount \in Nat /\ Eps \in Nat \ {0} /\ tally \in Nat
      /\ tally < whole.amount + Eps /\ tally = SumShares(children)
  BY MoneyAssumption DEF SplitInv, Money
<1>2. tally >= whole.amount
  BY <1>1 DEF Left
<1>3. MoneyEquals(SumShares(children), whole.amount)
  BY <1>1, <1>2 DEF MoneyEquals
<1>4. QED
  BY <1>3 DEF SplitInv, Reconciles

\* However a committed amount is split, the recorded shares stay within it, to the
\* tolerance once, and a split with nothing left is a consistent tree.
THEOREM SplitsWithinWhole == SplitSpec => []SharesWithinWhole
<1>1. SplitInv => SharesWithinWhole
  BY NothingLeftReconciles DEF SplitInv, SharesWithinWhole
<1>2. QED
  BY <1>1, SplitInitInv, SplitKeeps, PTL DEF SplitSpec

\* A refused allocation records nothing: the tree check never refuses what the cap let in.
THEOREM RefusalsRecordNothing == SplitSpec => RefusalRecordsNothing
<1>1. SplitInv /\ SplitInv' /\ [SplitNext]_splitVars => [children' # children => ~refused']_splitVars
  <2> SUFFICES ASSUME SplitInv', SplitNext, children' # children PROVE ~refused'
    OBVIOUS
  <2> PICK share : Comes(share) /\ AllocateShare(share) /\ UNCHANGED <<whole, weights>>
    BY DEF SplitNext, ShareOut, RefuseShare
  <2>1. refused' = (Left(tally') = 0 /\ ~Reconciles(children'))
    BY DEF AllocateShare
  <2>2. (children # <<>> /\ Left(tally) = 0 => Reconciles(children))'
    BY NothingLeftReconciles, PTL
  <2>3. children' # <<>>
    <3>1. children' = Append(children, share)
      BY DEF AllocateShare
    <3>2. QED
      BY <3>1
  <2>4. QED
    BY <2>1, <2>2, <2>3 DEF Left, Reconciles
<1>2. QED
  BY <1>1, SplitInitInv, SplitKeeps, PTL DEF SplitSpec, RefusalRecordsNothing

-----------------------------------------------------------------------------
(* allocate(): the largest-remainder method.  The floors leave over what the remainders *)
(* come to, one unit goes to each of as many parts, and those are the parts with the    *)
(* largest remainders.                                                                  *)

\* The quantities of allocate(), named: the floors, the remainders, who is served before a
\* part when the remainders are handed out, and how much is left over for that.
PartFloors(ws, minor) == [i \in DOMAIN ws |-> (minor * ws[i]) \div SumOfAll(ws)]
PartRemainders(ws, minor) == [i \in DOMAIN ws |-> (minor * ws[i]) % SumOfAll(ws)]
AheadOf(ws, minor) ==
  [i \in DOMAIN ws |->
     {j \in DOMAIN ws : \/ PartRemainders(ws, minor)[j] > PartRemainders(ws, minor)[i]
                        \/ PartRemainders(ws, minor)[j] = PartRemainders(ws, minor)[i] /\ j < i}]
UnitsLeft(ws, minor) == minor - SumFunctionOnSet(PartFloors(ws, minor), DOMAIN ws)
Served(ws, minor) ==
  {i \in DOMAIN ws : Cardinality(AheadOf(ws, minor)[i]) < UnitsLeft(ws, minor)}

LEMMA PartIs ==
  ASSUME NEW ws, NEW minor, NEW i \in DOMAIN ws
  PROVE  Part(ws, minor, i) = PartFloors(ws, minor)[i] + IF i \in Served(ws, minor) THEN 1 ELSE 0
BY DEF Part, Served, UnitsLeft, AheadOf, PartFloors, PartRemainders, SumOfAll

LEMMA WeightsSum ==
  ASSUME NEW ws \in Seq(Nat), CanAllocate(ws)
  PROVE  /\ DOMAIN ws = 1..Len(ws) /\ Len(ws) \in Nat /\ IsFiniteSet(DOMAIN ws)
         /\ \A i \in DOMAIN ws : ws[i] \in Nat
         /\ SumOfAll(ws) \in Nat \ {0} /\ SumOfAll(ws) = SumFunctionOnSet(ws, DOMAIN ws)
<1>1. DOMAIN ws = 1..Len(ws) /\ Len(ws) \in Nat /\ \A j \in DOMAIN ws : ws[j] \in Nat
  BY LenProperties, ElementOfSeq
<1>2. IsFiniteSet(DOMAIN ws)
  BY <1>1, FS_Interval
<1>3. SumFunctionOnSet(ws, DOMAIN ws) \in Nat
  BY <1>1, <1>2, SumNat
<1>4. QED
  BY <1>1, <1>2, <1>3 DEF SumOfAll, CanAllocate

LEMMA RemaindersAreNat ==
  ASSUME NEW ws \in Seq(Nat), CanAllocate(ws), NEW minor \in Nat
  PROVE  \A i \in DOMAIN ws :
           /\ PartFloors(ws, minor)[i] \in Nat /\ PartRemainders(ws, minor)[i] \in Nat
           /\ minor * ws[i] \in Nat
           /\ minor * ws[i] = SumOfAll(ws) * PartFloors(ws, minor)[i] + PartRemainders(ws, minor)[i]
           /\ PartRemainders(ws, minor)[i] < SumOfAll(ws)
<1> DEFINE s == SumOfAll(ws)
<1> TAKE i \in DOMAIN ws
<1>1. ws[i] \in Nat /\ s \in Nat \ {0}
  BY WeightsSum
<1>2. minor * ws[i] \in Nat
  BY <1>1, ProductNat
<1>3. /\ PartFloors(ws, minor)[i] = (minor * ws[i]) \div s
      /\ PartRemainders(ws, minor)[i] = (minor * ws[i]) % s
  BY DEF PartFloors, PartRemainders
<1> HIDE DEF s
<1>4. /\ (minor * ws[i]) \div s \in Nat /\ (minor * ws[i]) % s \in Nat
      /\ minor * ws[i] = s * ((minor * ws[i]) \div s) + ((minor * ws[i]) % s)
      /\ (minor * ws[i]) % s < s
  BY <1>1, <1>2, DivMod
<1>5. QED
  BY <1>2, <1>3, <1>4 DEF s

LEMMA IntervalCounts == \A n \in Nat : Cardinality(1..n) = n
BY FS_Interval

\* What is left over is what the remainders come to, and no more than one unit for every
\* part with a remainder.
LEMMA LeftOverBounds ==
  ASSUME NEW ws \in Seq(Nat), CanAllocate(ws), NEW minor \in Nat
  PROVE  LET some == {i \in DOMAIN ws : PartRemainders(ws, minor)[i] > 0}
         IN UnitsLeft(ws, minor) \in 0..Cardinality(some) /\ Cardinality(some) <= Len(ws)
<1> DEFINE D == DOMAIN ws
           s == SumOfAll(ws)
           fl == PartFloors(ws, minor)
           rem == PartRemainders(ws, minor)
           worth == [i \in D |-> minor * ws[i]]
           bulk == [i \in D |-> s * fl[i]]
           some == {i \in D : rem[i] > 0}
           ones == [i \in D |-> IF i \in some THEN 1 ELSE 0]
           full == [i \in D |-> s * ones[i]]
           left == UnitsLeft(ws, minor)
           sumFl == SumFunctionOnSet(fl, D)
           sumRem == SumFunctionOnSet(rem, D)
<1>1. /\ D = 1..Len(ws) /\ Len(ws) \in Nat /\ IsFiniteSet(D)
      /\ \A i \in D : ws[i] \in Nat
      /\ s \in Nat \ {0} /\ s = SumFunctionOnSet(ws, D)
  BY WeightsSum
<1>2. \A i \in D : worth[i] \in Nat
  BY <1>1, ProductNat
<1>3. \A i \in D : /\ fl[i] \in Nat /\ rem[i] \in Nat
                   /\ worth[i] = s * fl[i] + rem[i] /\ rem[i] < s
  BY RemaindersAreNat
<1>4. sumFl \in Nat /\ sumRem \in Nat
  <2>1. \A i \in D : fl[i] \in Nat
    BY <1>3
  <2>2. \A i \in D : rem[i] \in Nat
    BY <1>3
  <2> HIDE DEF fl, rem, D
  <2>3. QED
    BY <1>1, <2>1, <2>2, SumNat
<1>5. minor * s = s * sumFl + sumRem
  <2>1. \A i \in D : ws[i] \in Int /\ worth[i] = minor * ws[i]
    BY <1>1
  <2>2. \A i \in D : fl[i] \in Int /\ bulk[i] = s * fl[i]
    BY <1>3
  <2>3. \A i \in D : bulk[i] \in Int /\ rem[i] \in Int /\ worth[i] = bulk[i] + rem[i]
    <3>1. \A i \in D : bulk[i] = s * fl[i] /\ fl[i] \in Nat /\ rem[i] \in Nat /\ worth[i] = s * fl[i] + rem[i]
      BY <1>3
    <3> HIDE DEF bulk, fl, rem, worth, s, D
    <3>2. \A i \in D : s * fl[i] \in Nat
      BY <1>1, <3>1, ProductNat
    <3>3. QED
      BY <3>1, <3>2
  <2> HIDE DEF fl, rem, worth, bulk, s, D
  <2>4. SumFunctionOnSet(worth, D) = minor * SumFunctionOnSet(ws, D)
    <3>1. minor \in Int
      OBVIOUS
    <3>2. QED
      BY <1>1, <2>1, <3>1, SumScale
  <2>5. SumFunctionOnSet(bulk, D) = s * sumFl
    <3>1. s \in Int
      BY <1>1
    <3>2. QED
      BY <1>1, <2>2, <3>1, SumScale
  <2>6. SumFunctionOnSet(worth, D) = SumFunctionOnSet(bulk, D) + sumRem
    BY <1>1, <2>3, SumAdd
  <2>7. QED
    BY <1>1, <2>4, <2>5, <2>6
<1>6. sumRem <= s * Cardinality(some)
  <2>1. some \in SUBSET D
    OBVIOUS
  <2>2. (\A i \in some : ones[i] = 1) /\ (\A i \in D \ some : ones[i] = 0)
    OBVIOUS
  <2>3. \A i \in D : ones[i] \in Int /\ full[i] = s * ones[i]
    OBVIOUS
  <2>4. \A i \in D : rem[i] \in Int /\ full[i] \in Int /\ rem[i] <= full[i]
    <3>1. s * 1 = s /\ s * 0 = 0
      BY <1>1
    <3>2. \A i \in D : rem[i] \in Nat /\ rem[i] < s
      BY <1>3
    <3>3. \A i \in D : (rem[i] > 0 => full[i] = s * 1) /\ (~(rem[i] > 0) => full[i] = s * 0)
      OBVIOUS
    <3> HIDE DEF rem, full, s, D
    <3>4. QED
      BY <1>1, <3>1, <3>2, <3>3
  <2> HIDE DEF ones, full, rem, some, s, D
  <2>5. SumFunctionOnSet(ones, D) = Cardinality(some)
    BY <1>1, <2>1, <2>2, SumCounts
  <2>6. SumFunctionOnSet(full, D) = s * SumFunctionOnSet(ones, D)
    <3>1. s \in Int
      BY <1>1
    <3>2. QED
      BY <1>1, <2>3, <3>1, SumScale
  <2>7. sumRem <= SumFunctionOnSet(full, D)
    BY <1>1, <2>4, SumBelow
  <2>8. QED
    BY <2>5, <2>6, <2>7
<1>7. left = minor - sumFl /\ left \in Int
  BY <1>4 DEF UnitsLeft
<1>8. Cardinality(some) \in Nat /\ Cardinality(some) <= Len(ws)
  <2>1. some \in SUBSET D
    OBVIOUS
  <2>2. IsFiniteSet(some) /\ Cardinality(some) <= Cardinality(D)
    BY <1>1, <2>1, FS_Subset
  <2>3. Cardinality(D) = Len(ws)
    BY <1>1, IntervalCounts
  <2>4. QED
    BY <2>2, <2>3, FS_CardinalityType
<1>9. s * left = sumRem
  <2> HIDE DEF left, s, sumFl, sumRem
  <2>1. s * (minor - sumFl) = minor * s - s * sumFl
    BY <1>1, <1>4
  <2>2. s * sumFl \in Int
    BY <1>1, <1>4
  <2>3. QED
    BY <1>1, <1>4, <1>5, <1>7, <2>1, <2>2
<1>10. left <= Cardinality(some)
  <2> HIDE DEF left, s, sumFl, sumRem, some
  <2>1. s * left <= s * Cardinality(some)
    BY <1>6, <1>9
  <2>2. QED
    BY <1>1, <1>7, <1>8, <2>1, CancelLeft
<1>11. 0 <= left
  <2> HIDE DEF left, s, sumFl, sumRem, some
  <2>1. s * 0 <= s * left
    BY <1>1, <1>4, <1>9
  <2>2. QED
    BY <1>1, <1>7, <2>1, CancelLeft
<1>12. QED
  BY <1>7, <1>8, <1>10, <1>11

\* As many parts are served as units are left over, so that the parts add up to the whole.
LEMMA ServedCounts ==
  ASSUME NEW ws \in Seq(Nat), CanAllocate(ws), NEW minor \in Nat
  PROVE  Cardinality(Served(ws, minor)) = UnitsLeft(ws, minor)
<1> DEFINE n == Len(ws)
           rem == PartRemainders(ws, minor)
           ahead == AheadOf(ws, minor)
           k == UnitsLeft(ws, minor)
<1>1. DOMAIN ws = 1..n /\ n \in Nat
  BY WeightsSum
<1>2. k \in 0..n
  <2> DEFINE some == {i \in DOMAIN ws : PartRemainders(ws, minor)[i] > 0}
  <2>1. k \in 0..Cardinality(some) /\ Cardinality(some) <= Len(ws)
    BY LeftOverBounds
  <2> HIDE DEF some, k
  <2>2. some \in SUBSET (1..n)
    BY <1>1 DEF some
  <2>3. IsFiniteSet(1..n)
    BY <1>1, WeightsSum
  <2>4. Cardinality(some) \in Nat
    BY <2>2, <2>3, FS_Subset, FS_CardinalityType
  <2>5. QED
    BY <1>1, <2>1, <2>4
<1>3. \A i \in 1..n : rem[i] \in Int
  <2>1. \A i \in DOMAIN ws : rem[i] \in Nat
    BY RemaindersAreNat
  <2>2. QED
    BY <1>1, <2>1
<1>4. \A i \in 1..n : ahead[i] = {j \in 1..n : rem[j] > rem[i] \/ (rem[j] = rem[i] /\ j < i)}
  BY <1>1 DEF AheadOf
<1> HIDE DEF rem, ahead, k
<1>5. \A i \in 1..n : ahead[i] \in SUBSET (1..n)
  BY <1>4
<1>6. \A i \in 1..n : i \notin ahead[i]
  BY <1>3, <1>4
<1>7. \A i \in 1..n : \A j \in ahead[i] : ahead[j] \subseteq ahead[i]
  <2> SUFFICES ASSUME NEW i \in 1..n, NEW j \in ahead[i], NEW h \in ahead[j]
               PROVE  h \in ahead[i]
    OBVIOUS
  <2>1. j \in 1..n /\ (rem[j] > rem[i] \/ (rem[j] = rem[i] /\ j < i))
    BY <1>4
  <2>2. h \in 1..n /\ (rem[h] > rem[j] \/ (rem[h] = rem[j] /\ h < j))
    BY <1>4, <2>1
  <2>3. rem[h] > rem[i] \/ (rem[h] = rem[i] /\ h < i)
    BY <1>3, <2>1, <2>2
  <2>4. QED
    BY <1>4, <2>2, <2>3
<1>8. \A i, j \in 1..n : i # j => i \in ahead[j] \/ j \in ahead[i]
  <2> SUFFICES ASSUME NEW i \in 1..n, NEW j \in 1..n, i # j
               PROVE  i \in ahead[j] \/ j \in ahead[i]
    OBVIOUS
  <2>1. \/ rem[i] > rem[j] \/ (rem[i] = rem[j] /\ i < j)
        \/ rem[j] > rem[i] \/ (rem[j] = rem[i] /\ j < i)
    BY <1>1, <1>3
  <2>2. QED
    BY <1>4, <2>1
<1>9. Cardinality({i \in 1..n : Cardinality(ahead[i]) < k}) = k
  BY <1>1, <1>2, <1>5, <1>6, <1>7, <1>8, RankCounts
<1>10. QED
  BY <1>1, <1>9 DEF Served, ahead, k

LEMMA PartsAddUp ==
  ASSUME NEW ws \in Seq(Nat), CanAllocate(ws), NEW minor \in Nat
  PROVE  /\ \A i \in DOMAIN ws : Part(ws, minor, i) \in Nat
         /\ SumFunctionOnSet([i \in DOMAIN ws |-> Part(ws, minor, i)], DOMAIN ws) = minor
<1> DEFINE D == DOMAIN ws
           fl == PartFloors(ws, minor)
           extra == [i \in D |-> IF i \in Served(ws, minor) THEN 1 ELSE 0]
           parts == [i \in D |-> Part(ws, minor, i)]
<1>1. IsFiniteSet(D)
  BY WeightsSum
<1>2. \A i \in D : fl[i] \in Nat
  BY RemaindersAreNat
<1>3. \A i \in D : extra[i] \in {0, 1} /\ parts[i] = fl[i] + extra[i]
  BY PartIs
<1>4. \A i \in D : fl[i] \in Int /\ extra[i] \in Int /\ parts[i] = fl[i] + extra[i] /\ parts[i] \in Nat
  <2> HIDE DEF fl, extra, parts, D
  <2>1. QED
    BY <1>2, <1>3
<1>5. Served(ws, minor) \in SUBSET D
  BY DEF Served
<1>6. (\A i \in Served(ws, minor) : extra[i] = 1) /\ (\A i \in D \ Served(ws, minor) : extra[i] = 0)
  BY <1>5
<1> HIDE DEF fl, extra, parts, D
<1>7. SumFunctionOnSet(parts, D) = SumFunctionOnSet(fl, D) + SumFunctionOnSet(extra, D)
  <2>1. \A i \in D : fl[i] \in Int /\ extra[i] \in Int /\ parts[i] = fl[i] + extra[i]
    BY <1>4
  <2>2. QED
    BY <1>1, <2>1, SumAdd
<1>8. SumFunctionOnSet(extra, D) = Cardinality(Served(ws, minor))
  BY <1>1, <1>5, <1>6, SumCounts
<1>9. Cardinality(Served(ws, minor)) = minor - SumFunctionOnSet(fl, D)
  BY ServedCounts DEF UnitsLeft, fl, D
<1>10. SumFunctionOnSet(fl, D) \in Int
  <2>1. \A i \in D : fl[i] \in Int
    BY <1>2
  <2>2. QED
    BY <1>1, <2>1, SumType
<1>11. SumFunctionOnSet(parts, D) = minor
  BY <1>7, <1>8, <1>9, <1>10
<1>12. QED
  BY <1>4, <1>11 DEF parts, D

\* Only a part with a remainder is served, as there are units for no more.
LEMMA ServedHaveRemainders ==
  ASSUME NEW ws \in Seq(Nat), CanAllocate(ws), NEW minor \in Nat, NEW i \in Served(ws, minor)
  PROVE  PartRemainders(ws, minor)[i] > 0
<1> DEFINE rem == PartRemainders(ws, minor)
           ahead == AheadOf(ws, minor)[i]
           some == {j \in DOMAIN ws : rem[j] > 0}
<1> SUFFICES ASSUME ~(rem[i] > 0) PROVE FALSE
  OBVIOUS
<1>1. i \in DOMAIN ws /\ IsFiniteSet(DOMAIN ws)
  BY WeightsSum DEF Served
<1>2. \A j \in DOMAIN ws : rem[j] \in Nat
  BY RemaindersAreNat
<1>3. rem[i] = 0
  BY <1>1, <1>2
<1>4. ahead \in SUBSET (DOMAIN ws) /\ some \in SUBSET ahead
  BY <1>1, <1>2, <1>3 DEF AheadOf
<1>5. IsFiniteSet(ahead)
  BY <1>1, <1>4, FS_Subset
<1>6. Cardinality(some) <= Cardinality(ahead)
  BY <1>4, <1>5, FS_Subset
<1>7. UnitsLeft(ws, minor) \in 0..Cardinality(some)
  BY LeftOverBounds
<1>8. Cardinality(ahead) < UnitsLeft(ws, minor)
  BY DEF Served
<1>9. Cardinality(ahead) \in Nat /\ Cardinality(some) \in Nat
  BY <1>4, <1>5, FS_Subset, FS_CardinalityType
<1> HIDE DEF ahead, some
<1>10. QED
  BY <1>6, <1>7, <1>8, <1>9

\* No part is a whole unit away from what its weight is worth.
LEMMA PartsAreFair ==
  ASSUME NEW ws \in Seq(Nat), CanAllocate(ws), NEW minor \in Nat, NEW i \in DOMAIN ws
  PROVE  /\ SumOfAll(ws) * Part(ws, minor, i) < minor * ws[i] + SumOfAll(ws)
         /\ minor * ws[i] < SumOfAll(ws) * Part(ws, minor, i) + SumOfAll(ws)
<1> DEFINE s == SumOfAll(ws)
           fl == PartFloors(ws, minor)[i]
           rem == PartRemainders(ws, minor)[i]
           part == Part(ws, minor, i)
           due == minor * ws[i]
<1>1. s \in Nat \ {0} /\ fl \in Nat /\ rem \in Nat /\ due \in Nat /\ due = s * fl + rem /\ rem < s
  BY WeightsSum, RemaindersAreNat
<1>2. /\ i \in Served(ws, minor) => part = fl + 1 /\ rem > 0
      /\ i \notin Served(ws, minor) => part = fl
  BY <1>1, PartIs, ServedHaveRemainders
<1> HIDE DEF s, fl, rem, part, due
<1>3. s * (fl + 1) = s * fl + s /\ s * fl \in Nat
  BY <1>1
<1>4. s * part < due + s /\ due < s * part + s
  <2>1. CASE i \in Served(ws, minor)
    <3>1. s * part = s * fl + s /\ rem > 0
      BY <1>2, <1>3, <2>1
    <3>2. QED
      BY <1>1, <1>3, <3>1
  <2>2. CASE i \notin Served(ws, minor)
    <3>1. s * part = s * fl
      BY <1>2, <2>2
    <3>2. QED
      BY <1>1, <1>3, <3>1
  <2>3. QED
    BY <2>1, <2>2
<1>5. QED
  BY <1>4 DEF s, part, due

LEMMA WholeUnit == \A s, a, b \in Nat : a < b => s * (a + 1) <= s * b
<1> SUFFICES ASSUME NEW s \in Nat, NEW a \in Nat, NEW b \in Nat, a < b
             PROVE  s * (a + 1) <= s * b
  OBVIOUS
<1>1. PICK d \in Nat : b = (a + 1) + d
  <2>1. b - (a + 1) \in Nat /\ b = (a + 1) + (b - (a + 1))
    OBVIOUS
  <2>2. QED
    BY <2>1
<1>2. s * b = s * (a + 1) + s * d /\ s * d \in Nat /\ s * (a + 1) \in Nat
  BY <1>1, ProductNat
<1>3. QED
  BY <1>2

\* Of two numbers divided by the same divisor, the greater has no smaller quotient, and of
\* two with the same quotient it has the greater remainder.
LEMMA DivisionsInOrder ==
  ASSUME NEW s \in Nat \ {0}, NEW a \in Nat, NEW b \in Nat, NEW p \in Nat, NEW q \in Nat, p < s,
         NEW x, NEW y, x = s * a + p, y = s * b + q
  PROVE  /\ x >= y => a >= b
         /\ a = b /\ x > y => p > q
         /\ x = 0 => p = 0
<1>1. PICK u \in Nat, v \in Nat : u = s * a /\ v = s * b
  BY ProductNat
<1>2. x = u + p /\ y = v + q
  BY <1>1
<1>3. a = b => u = v
  BY <1>1
<1>4. a < b => u + s <= v
  <2> SUFFICES ASSUME a < b PROVE u + s <= v
    OBVIOUS
  <2>1. s * (a + 1) <= v
    BY <1>1, WholeUnit
  <2>2. s * (a + 1) = u + s
    BY <1>1
  <2>3. QED
    BY <2>1, <2>2
<1> HIDE <1>1
<1>5. QED
  BY <1>2, <1>3, <1>4

\* The greater weight gets no smaller part.
LEMMA PartsInOrder ==
  ASSUME NEW ws \in Seq(Nat), CanAllocate(ws), NEW minor \in Nat,
         NEW i \in DOMAIN ws, NEW j \in DOMAIN ws, ws[i] > ws[j]
  PROVE  Part(ws, minor, i) >= Part(ws, minor, j)
<1> DEFINE s == SumOfAll(ws)
           fl == PartFloors(ws, minor)
           rem == PartRemainders(ws, minor)
           ahead == AheadOf(ws, minor)
           due == [h \in DOMAIN ws |-> minor * ws[h]]
<1>1. /\ s \in Nat \ {0} /\ IsFiniteSet(DOMAIN ws)
      /\ \A h \in DOMAIN ws : ws[h] \in Nat
  BY WeightsSum
<1>2. \A h \in DOMAIN ws : /\ fl[h] \in Nat /\ rem[h] \in Nat /\ due[h] \in Nat
                           /\ due[h] = s * fl[h] + rem[h] /\ rem[h] < s
  BY RemaindersAreNat
<1>0. /\ due[i] >= due[j] => fl[i] >= fl[j]
      /\ fl[i] = fl[j] /\ due[i] > due[j] => rem[i] > rem[j]
      /\ due[i] = 0 => rem[i] = 0
      /\ due[j] = 0 => rem[j] = 0
  <2> HIDE DEF s, fl, rem, due
  <2>1. /\ fl[i] \in Nat /\ fl[j] \in Nat /\ rem[i] \in Nat /\ rem[j] \in Nat
        /\ rem[i] < s /\ rem[j] < s
        /\ due[i] = s * fl[i] + rem[i] /\ due[j] = s * fl[j] + rem[j]
    BY <1>2
  <2>2. PICK a, b, p, q, x, y : /\ a = fl[i] /\ b = fl[j] /\ p = rem[i] /\ q = rem[j]
                               /\ x = due[i] /\ y = due[j]
    OBVIOUS
  <2>3. s \in Nat \ {0}
    BY <1>1
  <2>4. /\ a \in Nat /\ b \in Nat /\ p \in Nat /\ q \in Nat /\ p < s /\ q < s
        /\ x = s * a + p /\ y = s * b + q
    BY <2>1, <2>2, Zenon
  <2>5. /\ x >= y => a >= b
        /\ a = b /\ x > y => p > q
        /\ x = 0 => p = 0
    BY <2>3, <2>4, DivisionsInOrder
  <2>6. y = 0 => q = 0
    BY <2>3, <2>4, DivisionsInOrder, Zenon
  <2>7. QED
    BY <2>2, <2>5, <2>6, Zenon
<1>3. due[i] >= due[j] /\ (minor > 0 => due[i] > due[j]) /\ (minor = 0 => due[i] = 0)
  <2>1. ws[i] \in Nat /\ ws[j] \in Nat
    BY <1>1
  <2>2. \A a, b, m \in Nat : a > b => m * a >= m * b /\ (m > 0 => m * a > m * b)
    OBVIOUS
  <2>3. QED
    BY <2>1, <2>2
<1>4. \A h \in {i, j} :
        Part(ws, minor, h) = fl[h] + IF h \in Served(ws, minor) THEN 1 ELSE 0
  BY PartIs
<1>5. \A h \in Served(ws, minor) : rem[h] > 0
  BY ServedHaveRemainders
<1>6. fl[i] >= fl[j]
  BY <1>0, <1>3
<1>7. CASE fl[i] > fl[j]
  <2> HIDE DEF fl
  <2>1. QED
    BY <1>2, <1>4, <1>7
<1>8. CASE fl[i] = fl[j]
  <2>1. CASE minor = 0
    <3>1. rem[i] = 0 /\ rem[j] = 0
      <4>1. due[i] \in Nat /\ due[j] \in Nat
        BY <1>2
      <4> HIDE DEF rem, due
      <4>2. QED
        BY <1>0, <1>3, <2>1, <4>1
    <3>2. i \notin Served(ws, minor) /\ j \notin Served(ws, minor)
      BY <1>5, <3>1
    <3>3. QED
      BY <1>2, <1>4, <1>8, <3>2
  <2>2. CASE minor > 0
    <3>1. rem[i] > rem[j]
      <4> HIDE DEF fl, rem, due
      <4>1. QED
        BY <1>0, <1>3, <1>8, <2>2
    <3>2. ahead[i] \in SUBSET ahead[j] /\ ahead[j] \in SUBSET (DOMAIN ws)
      <4>1. \A h \in DOMAIN ws : rem[h] > rem[i] \/ (rem[h] = rem[i] /\ h < i) => rem[h] > rem[j]
        <5>1. \A h \in DOMAIN ws : rem[h] \in Nat
          BY <1>2
        <5> HIDE DEF rem
        <5>2. QED
          BY <3>1, <5>1
      <4>2. QED
        BY <4>1 DEF AheadOf
    <3>3. Cardinality(ahead[i]) <= Cardinality(ahead[j])
      BY <1>1, <3>2, FS_Subset
    <3>4. Cardinality(ahead[i]) \in Nat /\ Cardinality(ahead[j]) \in Nat
      BY <1>1, <3>2, FS_Subset, FS_CardinalityType
    <3>5. UnitsLeft(ws, minor) \in Int
      <4>1. SumFunctionOnSet(fl, DOMAIN ws) \in Int
        <5>1. \A h \in DOMAIN ws : fl[h] \in Int
          BY <1>2
        <5> HIDE DEF fl
        <5>2. QED
          BY <1>1, <5>1, SumType
      <4>2. QED
        BY <4>1 DEF UnitsLeft
    <3>6. j \in Served(ws, minor) => i \in Served(ws, minor)
      BY <3>3, <3>4, <3>5 DEF Served
    <3> HIDE DEF fl
    <3>7. QED
      BY <1>2, <1>4, <1>8, <3>6
  <2>3. QED
    BY <2>1, <2>2
<1>9. QED
  BY <1>2, <1>6, <1>7, <1>8

\* Read off a whole number of minor units, allocate() loses nothing.
LEMMA WholeMinorUnits ==
  ASSUME NEW total \in Money, total.amount % (2 * Eps) = 0
  PROVE  MinorUnits(total) \in Nat /\ total.amount = 2 * Eps * MinorUnits(total)
<1> DEFINE e == 2 * Eps
           q == total.amount \div e
           d == (total.amount + Eps) \div e
           r == (total.amount + Eps) % e
<1>1. total.amount \in Nat /\ Eps \in Nat \ {0} /\ e \in Nat \ {0} /\ total.amount + Eps \in Nat
  BY MoneyAssumption DEF Money
<1>2. e = Eps + Eps
  BY <1>1
<1> HIDE DEF e
<1>3. q \in Nat /\ total.amount = e * q + (total.amount % e)
  BY <1>1, DivMod
<1>4. d \in Nat /\ r \in Nat /\ total.amount + Eps = e * d + r /\ r < e
  BY <1>1, DivMod
<1>5. total.amount % e = 0
  BY DEF e
<1> HIDE DEF q, d, r
<1>6. /\ e * q \in Nat /\ e * d \in Nat
      /\ e * (q + 1) = e * q + e /\ e * (d + 1) = e * d + e
  BY <1>1, <1>3, <1>4
<1>7. e * d < e * (q + 1) /\ e * q < e * (d + 1)
  <2> DEFINE ed == e * d
             eq == e * q
  <2>1. total.amount = eq /\ total.amount + Eps = ed + r /\ ed \in Nat /\ eq \in Nat
    BY <1>3, <1>4, <1>5, <1>6
  <2>2. e * (q + 1) = eq + e /\ e * (d + 1) = ed + e
    BY <1>6
  <2> HIDE DEF ed, eq
  <2>3. ed < eq + e /\ eq < ed + e
    BY <1>1, <1>2, <1>4, <2>1
  <2>4. QED
    BY <2>2, <2>3 DEF ed, eq
<1>8. d < q + 1 /\ q < d + 1
  BY <1>1, <1>3, <1>4, <1>7, CancelLess
<1>9. d = q
  BY <1>3, <1>4, <1>8
<1>10. MinorUnits(total) = d /\ total.amount = e * d
  <2>1. total.amount = e * q
    BY <1>3, <1>5, <1>6
  <2>2. QED
    BY <1>9, <2>1 DEF MinorUnits, d, e
<1>11. QED
  BY <1>4, <1>10 DEF e

\* The shares allocate() cuts add up to the total.
LEMMA SharesAddUp ==
  ASSUME NEW total \in Money, total.amount % (2 * Eps) = 0, NEW ws \in Seq(Nat), CanAllocate(ws)
  PROVE  LET cut == [i \in DOMAIN ws |-> Allocate(total, ws)[i].amount]
         IN /\ IsFiniteSet(DOMAIN ws) /\ \A i \in DOMAIN ws : cut[i] \in Nat
            /\ SumFunctionOnSet(cut, DOMAIN ws) = total.amount
<1> DEFINE D == DOMAIN ws
           minor == MinorUnits(total)
           e == 2 * Eps
           part == [i \in D |-> Part(ws, minor, i)]
           cut == [i \in D |-> Allocate(total, ws)[i].amount]
<1>1. minor \in Nat /\ total.amount = e * minor
  BY WholeMinorUnits
<1>2. e \in Nat
  BY MoneyAssumption
<1>3. (\A i \in D : part[i] \in Nat) /\ SumFunctionOnSet(part, D) = minor
  BY <1>1, PartsAddUp
<1>4. \A i \in D : cut[i] = e * part[i]
  BY DEF Allocate
<1>5. IsFiniteSet(D)
  BY WeightsSum
<1> HIDE DEF D, minor, e, part, cut
<1>6. \A i \in D : cut[i] \in Nat
  BY <1>2, <1>3, <1>4, ProductNat
<1>7. SumFunctionOnSet(cut, D) = e * SumFunctionOnSet(part, D)
  <2>1. \A i \in D : part[i] \in Int /\ cut[i] = e * part[i]
    BY <1>3, <1>4
  <2>2. e \in Int
    BY <1>2
  <2>3. QED
    BY <1>5, <2>1, <2>2, SumScale
<1>8. SumFunctionOnSet(cut, D) = total.amount
  BY <1>1, <1>3, <1>7
<1>9. QED
  BY <1>5, <1>6, <1>8 DEF D, cut

\* Along a cut into shares of a whole of whole minor units, the children recorded are the first
\* shares, and none was refused.
Cutting == weights # <<>> /\ whole.amount % (2 * Eps) = 0

CutInv ==
  Cutting =>
    /\ ~refused
    /\ Len(children) <= Len(weights)
    /\ \A i \in DOMAIN children : children[i] = Allocate(whole, weights)[i]

\* So far the running total is the sum of the first shares, and never above the whole.
LEMMA CutTally ==
  ASSUME SplitInv, CutInv, Cutting
  PROVE  /\ whole \in Money /\ weights \in Seq(Nat) /\ CanAllocate(weights)
         /\ Len(children) \in Nat /\ DOMAIN children = 1..Len(children)
         /\ DOMAIN weights = 1..Len(weights) /\ Len(weights) \in Nat
         /\ Len(children) = Len(weights) => tally = whole.amount
         /\ Len(children) < Len(weights) =>
              tally + Allocate(whole, weights)[Len(children) + 1].amount <= whole.amount
<1> DEFINE n == Len(children)
           D == DOMAIN weights
           cut == [i \in D |-> Allocate(whole, weights)[i].amount]
           got == [i \in DOMAIN children |-> children[i].amount]
<1>1. whole \in Money /\ weights \in Seq(Nat) /\ CanAllocate(weights)
  BY DEF SplitInv, Cutting
<1>2. n \in Nat /\ DOMAIN children = 1..n
  BY LenProperties DEF SplitInv
<1>3. D = 1..Len(weights) /\ Len(weights) \in Nat
  BY <1>1, LenProperties
<1>4. whole.amount % (2 * Eps) = 0
  BY DEF Cutting
<1>5. /\ IsFiniteSet(D) /\ \A i \in D : cut[i] \in Nat
      /\ SumFunctionOnSet(cut, D) = whole.amount
  BY <1>1, <1>4, SharesAddUp
<1>6. n <= Len(weights) /\ 1..n \in SUBSET D
  BY <1>2, <1>3 DEF CutInv
<1>7. \A i \in 1..n : got[i] = cut[i]
  BY <1>2, <1>6 DEF CutInv
<1>8. tally = SumFunctionOnSet(got, 1..n)
  BY <1>2 DEF SplitInv, SumShares
<1>9. n < Len(weights) => n + 1 \in D /\ cut[n + 1] = Allocate(whole, weights)[n + 1].amount
  BY <1>2, <1>3
<1> HIDE DEF n, D, cut, got
<1>10. IsFiniteSet(1..n)
  BY <1>5, <1>6, FS_Subset
<1>11. tally = SumFunctionOnSet(cut, 1..n)
  BY <1>7, <1>8, <1>10, SumCongruent
<1>12. n = Len(weights) => tally = whole.amount
  BY <1>3, <1>5, <1>11
<1>13. ASSUME n < Len(weights) PROVE tally + cut[n + 1] <= whole.amount
  <2>1. 1..(n + 1) = 1..n \cup {n + 1} /\ n + 1 \notin 1..n
    BY <1>2
  <2>2. \A i \in 1..n \cup {n + 1} : cut[i] \in Int
    BY <1>5, <1>6, <1>9, <1>13
  <2>3. SumFunctionOnSet(cut, 1..n \cup {n + 1}) = cut[n + 1] + SumFunctionOnSet(cut, 1..n)
    BY <1>10, <2>1, <2>2, SumInsert
  <2>4. 1..(n + 1) \in SUBSET D
    BY <1>2, <1>3, <1>13
  <2>5. SumFunctionOnSet(cut, 1..(n + 1)) <= SumFunctionOnSet(cut, D)
    BY <1>5, <2>4, SumMonotone
  <2>6. SumFunctionOnSet(cut, 1..n) \in Int /\ cut[n + 1] \in Int
    <3>1. \A i \in 1..n : cut[i] \in Int
      BY <2>2
    <3>2. QED
      BY <1>10, <2>2, <3>1, SumType
  <2>7. tally \in Int /\ whole.amount \in Int
    BY <1>1, <1>11, <2>6 DEF Money
  <2>8. cut[n + 1] + SumFunctionOnSet(cut, 1..n) <= whole.amount
    BY <1>5, <2>1, <2>3, <2>5
  <2>9. QED
    BY <1>11, <2>6, <2>7, <2>8
<1>14. QED
  BY <1>1, <1>2, <1>3, <1>9, <1>12, <1>13 DEF n, D

\* The next share is always admitted.
LEMMA CutAdmitted ==
  ASSUME SplitInv, CutInv, Cutting, NEW share, Comes(share)
  PROVE  /\ Admits(share)
         /\ Len(children) < Len(weights)
         /\ share = Allocate(whole, weights)[Len(children) + 1]
<1>1. Len(children) < Len(weights) /\ share = Allocate(whole, weights)[Len(children) + 1]
  BY DEF Comes, Cutting
<1>2. /\ whole \in Money /\ weights \in Seq(Nat) /\ CanAllocate(weights)
      /\ Len(children) + 1 \in DOMAIN weights
      /\ tally + share.amount <= whole.amount
  <2>1. /\ whole \in Money /\ weights \in Seq(Nat) /\ CanAllocate(weights)
        /\ Len(children) \in Nat /\ DOMAIN weights = 1..Len(weights) /\ Len(weights) \in Nat
        /\ Len(children) < Len(weights) =>
             tally + Allocate(whole, weights)[Len(children) + 1].amount <= whole.amount
    BY CutTally
  <2>2. QED
    BY <1>1, <2>1
<1>3. share \in Money /\ share.currency = whole.currency
  BY <1>1, <1>2, AllocatedShare
<1>4. whole # NoMoney /\ share # NoMoney
  BY <1>2, <1>3, MoneyAssumption
<1>5. tally \in Nat /\ share.amount \in Nat /\ whole.amount \in Nat
  BY <1>2, <1>3 DEF SplitInv, Money
<1>6. ~OverAllocates(tally + share.amount)
  BY <1>2, <1>5 DEF OverAllocates
<1>7. QED
  BY <1>1, <1>3, <1>4, <1>6 DEF Admits, Comparable

LEMMA CutKeeps == SplitInv /\ CutInv /\ [SplitNext]_splitVars => CutInv'
<1> SUFFICES ASSUME SplitInv, CutInv, [SplitNext]_splitVars, Cutting'
             PROVE  (/\ ~refused
                     /\ Len(children) <= Len(weights)
                     /\ \A i \in DOMAIN children : children[i] = Allocate(whole, weights)[i])'
  BY DEF CutInv
<1>0. SplitInv'
  BY SplitKeeps
<1>1. CASE UNCHANGED splitVars
  BY <1>1 DEF splitVars, CutInv, Cutting
<1>2. CASE SplitNext
  <2> PICK share : Comes(share) /\ ShareOut(share) /\ UNCHANGED <<whole, weights>>
    BY <1>2 DEF SplitNext
  <2>1. Cutting
    BY DEF Cutting
  <2>2. /\ Admits(share) /\ Len(children) < Len(weights)
        /\ share = Allocate(whole, weights)[Len(children) + 1]
    BY <2>1, CutAdmitted
  <2>3. AllocateShare(share)
    BY <2>2 DEF ShareOut, RefuseShare
  <2>4. /\ children' = Append(children, share)
        /\ refused' = (Left(tally') = 0 /\ ~Reconciles(children'))
    BY <2>3 DEF AllocateShare
  <2>5. ~refused'
    <3>1. (children # <<>> /\ Left(tally) = 0 => Reconciles(children))'
      BY <1>0, NothingLeftReconciles, PTL
    <3>2. children' # <<>>
      BY <2>4
    <3>3. QED
      BY <2>4, <3>1, <3>2 DEF Left, Reconciles
  <2>6. /\ children \in Seq(Money) /\ share \in Money
        /\ Len(children) \in Nat /\ Len(weights) \in Nat /\ DOMAIN children = 1..Len(children)
    <3>1. /\ whole \in Money /\ weights \in Seq(Nat) /\ CanAllocate(weights)
          /\ Len(children) \in Nat /\ DOMAIN children = 1..Len(children)
          /\ DOMAIN weights = 1..Len(weights) /\ Len(weights) \in Nat
      BY <2>1, CutTally
    <3>2. Len(children) + 1 \in DOMAIN weights
      BY <2>2, <3>1
    <3>3. QED
      BY <2>2, <3>1, <3>2, AllocatedShare DEF SplitInv
  <2>7. /\ Len(children') = Len(children) + 1
        /\ DOMAIN children' = 1..(Len(children) + 1)
        /\ children'[Len(children) + 1] = share
        /\ \A i \in 1..Len(children) : children'[i] = children[i]
    BY <2>4, <2>6, AppendProperties, LenProperties
  <2>8. \A i \in DOMAIN children' : children'[i] = Allocate(whole, weights)[i]
    BY <2>1, <2>2, <2>6, <2>7 DEF CutInv
  <2>9. QED
    BY <2>2, <2>5, <2>6, <2>7, <2>8
<1>3. QED
  BY <1>1, <1>2

\* The recorded shares are each within a minor unit of their due, and in the order of the
\* weights.
LEMMA SharesAreFair ==
  ASSUME NEW total \in Money, total.amount % (2 * Eps) = 0, NEW ws \in Seq(Nat), CanAllocate(ws),
         NEW i \in DOMAIN ws
  PROVE  LET due == total.amount * ws[i]
             got == Allocate(total, ws)[i].amount * SumOfAll(ws)
             one == 2 * Eps * SumOfAll(ws)
         IN got < due + one /\ due < got + one
<1> DEFINE s == SumOfAll(ws)
           e == 2 * Eps
           m == MinorUnits(total)
           part == Part(ws, m, i)
           w == ws[i]
<1>1. m \in Nat /\ total.amount = e * m /\ e \in Nat \ {0}
  BY WholeMinorUnits, MoneyAssumption
<1>2. s \in Nat \ {0} /\ w \in Nat
  BY WeightsSum
<1>3. part \in Nat
  BY <1>1, PartsAddUp
<1>4. s * part < m * w + s /\ m * w < s * part + s
  BY <1>1, PartsAreFair
<1>5. Allocate(total, ws)[i].amount = e * part
  BY DEF Allocate
<1> HIDE DEF s, e, m, part, w
<1>6. s * part \in Nat /\ m * w \in Nat
  BY <1>1, <1>2, <1>3, ProductNat
<1>7. \A x, y, z \in Nat : x < y + z => e * x < e * y + e * z
  BY <1>1
<1>8. e * (s * part) < e * (m * w) + e * s /\ e * (m * w) < e * (s * part) + e * s
  BY <1>2, <1>4, <1>6, <1>7
<1>9. (e * m) * w = e * (m * w) /\ (e * part) * s = e * (s * part)
  BY <1>1, <1>2, <1>3
<1>10. QED
  BY <1>1, <1>5, <1>8, <1>9 DEF s, e, w

\* The shares allocate() cuts are all admitted, add up to the whole, and are each due: the
\* largest-remainder method loses and makes up no unit, for any weights.
THEOREM CutsAreComplete == SplitSpec => []CutsComplete
<1>1. SplitInit => CutInv
  <2> SUFFICES ASSUME SplitInit PROVE CutInv
    OBVIOUS
  <2>1. children = <<>> /\ ~refused
    BY DEF SplitInit
  <2>2. Len(children) = 0 /\ DOMAIN children = {}
    BY <2>1
  <2>3. Cutting => Len(weights) \in Nat
    BY SplitInitInv, LenProperties DEF SplitInv, Cutting
  <2>4. QED
    BY <2>1, <2>2, <2>3 DEF CutInv
<1>2. SplitInv /\ CutInv => CutsComplete
  <2> SUFFICES ASSUME SplitInv, CutInv, Cutting
               PROVE  /\ ~refused
                      /\ Len(children) = Len(weights) => tally = whole.amount
                      /\ \A i \in DOMAIN children :
                           LET due == whole.amount * weights[i]
                               got == children[i].amount * SumOfAll(weights)
                               one == 2 * Eps * SumOfAll(weights)
                           IN got < due + one /\ due < got + one
                      /\ \A i, j \in DOMAIN children :
                           weights[i] > weights[j] => children[i].amount >= children[j].amount
    BY DEF CutsComplete, Cutting
  <2>1. /\ whole \in Money /\ weights \in Seq(Nat) /\ CanAllocate(weights)
        /\ Len(children) = Len(weights) => tally = whole.amount
        /\ whole.amount % (2 * Eps) = 0
    BY CutTally DEF Cutting
  <2>2. ~refused /\ \A i \in DOMAIN children : i \in DOMAIN weights
                                             /\ children[i] = Allocate(whole, weights)[i]
    BY CutTally DEF CutInv
  <2>3. ASSUME NEW i \in DOMAIN children
        PROVE  LET due == whole.amount * weights[i]
                   got == children[i].amount * SumOfAll(weights)
                   one == 2 * Eps * SumOfAll(weights)
               IN got < due + one /\ due < got + one
    BY <2>1, <2>2, SharesAreFair
  <2>4. ASSUME NEW i \in DOMAIN children, NEW j \in DOMAIN children, weights[i] > weights[j]
        PROVE  children[i].amount >= children[j].amount
    <3> DEFINE m == MinorUnits(whole)
               e == 2 * Eps
    <3>1. m \in Nat /\ e \in Nat
      BY <2>1, WholeMinorUnits, MoneyAssumption
    <3>2. Part(weights, m, i) >= Part(weights, m, j)
      BY <2>1, <2>2, <2>4, <3>1, PartsInOrder
    <3>3. Part(weights, m, i) \in Nat /\ Part(weights, m, j) \in Nat
      BY <2>1, <2>2, <3>1, PartsAddUp
    <3>4. children[i].amount = e * Part(weights, m, i) /\ children[j].amount = e * Part(weights, m, j)
      <4>1. \A h \in DOMAIN weights : Allocate(whole, weights)[h].amount = e * Part(weights, m, h)
        BY DEF Allocate
      <4>2. QED
        BY <2>2, <4>1
    <3> HIDE DEF m, e
    <3>5. \A x, y \in Nat : x >= y => e * x >= e * y
      BY <3>1
    <3>6. QED
      BY <3>2, <3>3, <3>4, <3>5
  <2>5. QED
    BY <2>1, <2>2, <2>3, <2>4
<1>3. QED
  BY <1>1, <1>2, CutKeeps, SplitInitInv, SplitKeeps, PTL DEF SplitSpec

-----------------------------------------------------------------------------
(* Negotiation.  The session records only keys of steps that were tried, so the key of *)
(* the next step is fresh and its verdict is a verdict on the move itself.             *)

StepKey(n, kind) == <<"key", <<"negotiation", Deal, n, kind>>>>

NegotiationInv ==
  /\ Typed
  /\ steps \in 0..MaxSteps
  /\ tabled \in Seq(Money) /\ standing \in Money
  /\ StandingTellsMoves
  /\ \A k \in applied : \E n \in 0..MaxSteps, kind \in DOMAIN TargetOf :
       n < steps /\ k = StepKey(n, kind)

LEMMA OpeningIsMoney == Deal \in Commitments /\ Opening \in Money
BY LimitsAssumption, StepsAssumption, MoneyAssumption DEF Malformed, Opening, OpeningPrice

\* The move behind a step is a proposal of its own that refunds nothing.
LEMMA StepMoveType ==
  ASSUME steps \in 0..MaxSteps, NEW kind \in DOMAIN TargetOf, NEW by \in Actors
  PROVE  /\ Proposable(StepMove(kind, by))
         /\ StepMove(kind, by).commitment = Deal
         /\ ActionKey(StepMove(kind, by)) = StepKey(steps, kind)
         /\ ~Tracked(StepMove(kind, by))
<1>1. TargetOf[kind] \in StateTypes /\ TargetOf[kind] # "Refunded"
  BY DEF TargetOf, StateTypes, CommitmentTransitions
<1>2. Plain(TargetOf[kind]) \in States /\ Plain(TargetOf[kind]).type # "Refunded"
  BY <1>1, PlainIsState DEF Plain
<1>3. Deal \in Ids
  BY OpeningIsMoney, CommitmentsAssumption
<1>4. StepMove(kind, by).key = <<"negotiation", Deal, steps, kind>>
      /\ <<"negotiation", Deal, steps, kind>> # None
  BY StepsAssumption DEF StepMove
<1>5. QED
  BY <1>2, <1>3, <1>4 DEF StepMove, Proposable, ActionKey, StepKey, Tracked

\* A step that reaches the session moves the commitment exactly when its verdict is ok.
LEMMA StepDecides ==
  ASSUME NegotiationInv, NEW kind \in DOMAIN TargetOf, NEW by \in Actors, NEW at \in Times,
         Propose(StepMove(kind, by), None, at)
  PROVE  /\ StepOk(kind, by, at) =>
              /\ Len(world'[Deal].history) = Len(world[Deal].history) + 1
              /\ applied' = applied \cup {StepKey(steps, kind)}
         /\ ~StepOk(kind, by, at) => UNCHANGED vars
<1> DEFINE move == StepMove(kind, by)
<1>1. /\ Proposable(move) /\ move.commitment = Deal /\ ~Tracked(move)
      /\ ActionKey(move) = StepKey(steps, kind)
  BY StepMoveType DEF NegotiationInv
<1>2. ~IsReplay(move)
  <2> SUFFICES ASSUME StepKey(steps, kind) \in applied PROVE FALSE
    BY <1>1 DEF IsReplay
  <2> PICK n \in 0..MaxSteps, other \in DOMAIN TargetOf :
         n < steps /\ StepKey(steps, kind) = StepKey(n, other)
    BY DEF NegotiationInv
  <2>1. n = steps
    BY DEF StepKey
  <2>2. QED
    BY <2>1 DEF NegotiationInv
<1>3. Fresh(move, None)
  BY <1>2 DEF Fresh, Conflicts, VersionConflict
<1> HIDE DEF move
<1>4. StepOk(kind, by, at) <=> Accepting(move, None, at)
  BY <1>1, <1>2, <1>3 DEF StepOk, Accepted, move
<1>5. Advance(move, None, at) \/ Reject(move, None, at)
  BY <1>1, <1>2, <1>3 DEF Propose, Replay, Conflict, Fresh, RefundInPart, RefundInFull,
                          RefundThrows, Refundable, move
<1>6. CASE Advance(move, None, at)
  <2>1. Accepting(move, None, at) /\ world' = MoveIn(world, move, at)
    BY <1>6 DEF Advance
  <2>2. MoveIn(world, move, at)[Deal] = Transitioned(world[Deal], move.to, move.actor, at)
    BY <1>1, <2>1, MoveInType DEF NegotiationInv
  <2>3. /\ world[Deal] \in Commitment /\ move.to \in States /\ move.actor \in Actors
        /\ at \in Nat
    BY <1>1, OpeningIsMoney, RequestsAssumption DEF NegotiationInv, Typed, Proposable
  <2>4. Len(world'[Deal].history) = Len(world[Deal].history) + 1
    BY <2>1, <2>2, <2>3, TransitionedType
  <2>5. applied' = applied \cup {StepKey(steps, kind)}
    BY <1>1, <1>6 DEF Advance, RecordKey
  <2>6. QED
    BY <1>4, <2>1, <2>4, <2>5
<1>7. CASE Reject(move, None, at)
  BY <1>1, <1>4, <1>7 DEF Reject, Rejected
<1>8. QED
  BY <1>5, <1>6, <1>7

LEMMA NegotiationStart == NegotiationInit => NegotiationInv
<1> SUFFICES ASSUME NegotiationInit PROVE NegotiationInv
  OBVIOUS
<1>1. Typed /\ world = InitialWorld /\ applied = {}
  BY InitType DEF NegotiationInit, Init
<1>2. /\ standing = Opening /\ conceded = 0 /\ steps = 0 /\ tabled = <<>>
      /\ Opening \in Money /\ Opening.amount \in Nat
  BY OpeningIsMoney DEF NegotiationInit, Money
<1>3. world[Deal].history \in Seq(Entry)
  BY <1>1, OpeningIsMoney DEF Typed, Commitment
<1>4. StandingTellsMoves
  <2>1. Len(world[Deal].history) - Len(InitialWorld[Deal].history) = 0
    BY <1>1, <1>3, LenProperties
  <2>2. Conceded(Opening.amount, Opening.amount) = 0
    BY <1>2 DEF Conceded
  <2>3. QED
    BY <1>2, <2>1, <2>2 DEF StandingTellsMoves
<1>5. QED
  BY <1>1, <1>2, <1>4, StepsAssumption DEF NegotiationInv

\* The keys recorded before a step are keys of steps tried before the next one.
LEMMA OlderKeys ==
  ASSUME NegotiationInv, steps < MaxSteps, steps' = steps + 1, UNCHANGED applied
  PROVE  (\A k \in applied : \E n \in 0..MaxSteps, kind \in DOMAIN TargetOf :
            n < steps /\ k = StepKey(n, kind))'
<1> SUFFICES ASSUME NEW k \in applied
             PROVE  \E n \in 0..MaxSteps, kind \in DOMAIN TargetOf : n < steps' /\ k = StepKey(n, kind)
  BY DEF StepKey
<1> PICK n \in 0..MaxSteps, kind \in DOMAIN TargetOf : n < steps /\ k = StepKey(n, kind)
  BY DEF NegotiationInv
<1>1. n < steps'
  BY DEF NegotiationInv
<1>2. QED
  BY <1>1

LEMMA ConcedeKeeps ==
  ASSUME NegotiationInv, NEW kind \in DOMAIN TargetOf, NEW named \in Prices \cup {NoMoney},
         NEW by \in Actors, NEW at \in Times, Concede(kind, named, by, at)
  PROVE  NegotiationInv'
<1>1. /\ steps \in Nat /\ MaxSteps \in Nat /\ steps < MaxSteps /\ steps' = steps + 1
      /\ steps' \in 0..MaxSteps
  BY StepsAssumption DEF NegotiationInv, Concede
<1>2. CASE UNCHANGED <<vars, standing, conceded, tabled>>
  <2>1. Typed'
    BY <1>2 DEF NegotiationInv, Typed, vars
  <2>2. tabled' \in Seq(Money) /\ standing' \in Money /\ StandingTellsMoves'
    BY <1>2 DEF NegotiationInv, StandingTellsMoves, vars
  <2>3. (\A k \in applied : \E n \in 0..MaxSteps, other \in DOMAIN TargetOf :
           n < steps /\ k = StepKey(n, other))'
    BY <1>1, <1>2, OlderKeys DEF vars
  <2>4. QED
    BY <1>1, <2>1, <2>2, <2>3 DEF NegotiationInv
<1>3. CASE Take(kind, named, by, at)
  <2>1. Propose(StepMove(kind, by), None, at)
    BY <1>3 DEF Take
  <2>2. CASE ~StepOk(kind, by, at)
    BY <1>2, <1>3, <2>1, <2>2, StepDecides DEF Take
  <2>3. CASE StepOk(kind, by, at)
    <3> DEFINE price == PriceOf(named)
    <3>1. /\ standing' = price /\ tabled' = Append(tabled, price)
          /\ conceded' = Conceded(Opening.amount, price.amount)
          /\ price \in Money
      BY <1>3, <2>3, StepsAssumption DEF Take, PriceOf, NegotiationInv
    <3>2. /\ Len(world'[Deal].history) = Len(world[Deal].history) + 1
          /\ applied' = applied \cup {StepKey(steps, kind)}
      BY <2>1, <2>3, StepDecides
    <3>3. Typed'
      <4>1. Proposable(StepMove(kind, by))
        BY StepMoveType DEF NegotiationInv
      <4>2. Proposes
        BY <2>1, <4>1 DEF Proposes
      <4>3. QED
        BY <4>2, NextType DEF NegotiationInv
    <3>4. StandingTellsMoves'
      <4>1. /\ tabled \in Seq(Money) /\ Len(tabled) \in Nat
            /\ Len(tabled') = Len(tabled) + 1 /\ tabled'[Len(tabled')] = price
            /\ tabled' # <<>>
        BY <3>1, AppendProperties, LenProperties DEF NegotiationInv
      <4>2. /\ Len(world[Deal].history) \in Nat /\ Len(InitialWorld[Deal].history) \in Nat
        <5>1. world[Deal] \in Commitment
          BY OpeningIsMoney DEF NegotiationInv, Typed
        <5>2. InitialWorld[Deal] \in Commitment
          BY OpeningIsMoney, SynthesizedType, RequestsAssumption DEF InitialWorld
        <5>3. QED
          BY <5>1, <5>2, LenProperties DEF Commitment
      <4>3. Len(tabled) = Len(world[Deal].history) - Len(InitialWorld[Deal].history)
        BY DEF NegotiationInv, StandingTellsMoves
      <4>4. Len(tabled') = Len(world'[Deal].history) - Len(InitialWorld[Deal].history)
        BY <3>2, <4>1, <4>2, <4>3
      <4>5. QED
        BY <3>1, <4>1, <4>4 DEF StandingTellsMoves
    <3>5. (\A k \in applied : \E n \in 0..MaxSteps, other \in DOMAIN TargetOf :
             n < steps /\ k = StepKey(n, other))'
      <4> SUFFICES ASSUME NEW k \in applied'
                   PROVE  \E n \in 0..MaxSteps, other \in DOMAIN TargetOf :
                            n < steps' /\ k = StepKey(n, other)
        BY DEF StepKey
      <4>1. CASE k = StepKey(steps, kind)
        BY <1>1, <4>1 DEF NegotiationInv
      <4>2. CASE k \in applied
        <5> PICK n \in 0..MaxSteps, other \in DOMAIN TargetOf : n < steps /\ k = StepKey(n, other)
          BY <4>2 DEF NegotiationInv
        <5>1. n < steps'
          BY <1>1
        <5>2. QED
          BY <5>1
      <4>3. QED
        BY <3>2, <4>1, <4>2
    <3>6. tabled' \in Seq(Money)
      BY <3>1, AppendProperties DEF NegotiationInv
    <3>7. QED
      BY <1>1, <3>1, <3>3, <3>4, <3>5, <3>6 DEF NegotiationInv
  <2>4. QED
    BY <2>2, <2>3
<1>4. QED
  BY <1>2, <1>3 DEF Concede, Refuse

\* The price on the table is the one of the last move the commitment made, one price per
\* recorded move, whatever is offered, refused or repeated: guardConcession.
THEOREM StandingFollows == NegotiationSpec => []StandingTellsMoves
<1>1. NegotiationInv /\ [NegotiationNext]_negotiationVars => NegotiationInv'
  <2> SUFFICES ASSUME NegotiationInv, [NegotiationNext]_negotiationVars PROVE NegotiationInv'
    OBVIOUS
  <2>1. CASE UNCHANGED negotiationVars
    BY <2>1 DEF negotiationVars, vars, NegotiationInv, Typed, StandingTellsMoves, StepKey
  <2>2. CASE NegotiationNext
    BY <2>2, ConcedeKeeps DEF NegotiationNext
  <2>3. QED
    BY <2>1, <2>2
<1>2. NegotiationInv => StandingTellsMoves
  BY DEF NegotiationInv
<1>3. QED
  BY <1>1, <1>2, NegotiationStart, PTL DEF NegotiationSpec

-----------------------------------------------------------------------------
(* Interop.  Each line of the report is the answer for one source, and the merge is    *)
(* decided when every source has its line.                                             *)

Agrees(i) == i = 1 \/ Unifies(<<sources[1], sources[i]>>)

InteropInv ==
  /\ sources \in Batches /\ conserves \in Seq(BOOLEAN) /\ Len(conserves) <= Len(sources)
  /\ \A i \in DOMAIN conserves : conserves[i] <=> Agrees(i)
  /\ merged # "open" => Len(conserves) = Len(sources)
  /\ merged = "ok" <=> merged # "open" /\ Unifies(sources)

LEMMA SourcesType ==
  ASSUME InteropInv
  PROVE  /\ Len(sources) \in Nat /\ DOMAIN sources = 1..Len(sources)
         /\ Len(conserves) \in Nat /\ DOMAIN conserves = 1..Len(conserves)
         /\ \A i \in DOMAIN sources : /\ sources[i].money \in Money \cup {NoMoney}
                                      /\ sources[i].sound \in BOOLEAN
<1>1. sources \in Seq([money : Money \cup {NoMoney}, sound : BOOLEAN]) /\ conserves \in Seq(BOOLEAN)
  BY BatchesAssumption DEF InteropInv
<1>2. \A i \in DOMAIN sources : sources[i] \in [money : Money \cup {NoMoney}, sound : BOOLEAN]
  BY <1>1, LenProperties, ElementOfSeq
<1>3. QED
  BY <1>1, <1>2, LenProperties

\* Two sources unify when they do not differ and the first is sound.
LEMMA PairUnifies ==
  ASSUME NEW one, NEW other
  PROVE  Unifies(<<one, other>>) <=> ~Differs(one, other) /\ one.sound
<1>1. <<one, other>> # <<>> /\ Len(<<one, other>>) = 2
  OBVIOUS
<1>2. 2..2 = {2}
  OBVIOUS
<1>3. QED
  BY <1>1, <1>2 DEF Unifies

\* A source does not differ from itself.
LEMMA SameSource ==
  ASSUME NEW one, one.money \in Money \cup {NoMoney}
  PROVE  ~Differs(one, one)
BY MoneyAssumption DEF Differs, MoneyEquals, Money

LEMMA InteropStart == InteropInit => InteropInv
<1> SUFFICES ASSUME InteropInit PROVE InteropInv
  OBVIOUS
<1>1. sources \in Seq([money : Money \cup {NoMoney}, sound : BOOLEAN])
  BY BatchesAssumption DEF InteropInit
<1>2. Len(sources) \in Nat /\ conserves = <<>> /\ Len(conserves) = 0 /\ DOMAIN conserves = {}
  BY <1>1, LenProperties DEF InteropInit
<1>3. QED
  BY <1>2 DEF InteropInit, InteropInv

LEMMA InteropKeeps == InteropInv /\ [InteropNext]_interopVars => InteropInv'
<1> SUFFICES ASSUME InteropInv, [InteropNext]_interopVars PROVE InteropInv'
  OBVIOUS
<1>1. CASE UNCHANGED interopVars
  BY <1>1 DEF interopVars, InteropInv, Agrees
<1>2. CASE CompareSource
  <2> DEFINE n == Len(conserves)
  <2>1. /\ conserves' = Append(conserves, Agrees(n + 1)) /\ n < Len(sources)
        /\ sources' = sources /\ merged' = merged /\ merged = "open"
    BY <1>2 DEF CompareSource, Agrees
  <2>2. n \in Nat /\ Len(sources) \in Nat /\ conserves \in Seq(BOOLEAN) /\ DOMAIN conserves = 1..n
    BY SourcesType DEF InteropInv
  <2>3. Agrees(n + 1) \in BOOLEAN
    BY DEF Agrees, Unifies
  <2>4. /\ conserves' \in Seq(BOOLEAN) /\ Len(conserves') = n + 1
        /\ DOMAIN conserves' = 1..(n + 1) /\ conserves'[n + 1] = Agrees(n + 1)
        /\ \A i \in 1..n : conserves'[i] = conserves[i]
    <3> HIDE DEF n
    <3> DEFINE answer == Agrees(n + 1)
    <3> HIDE DEF answer
    <3>1. answer \in BOOLEAN /\ conserves' = Append(conserves, answer)
      BY <2>1, <2>3 DEF answer
    <3>2. Len(conserves) = n
      BY DEF n
    <3>3. QED
      BY <2>2, <3>1, <3>2, AppendProperties, LenProperties DEF answer
  <2>5. ASSUME NEW i \in DOMAIN conserves' PROVE conserves'[i] <=> Agrees(i)'
    <3>1. Agrees(i)' <=> Agrees(i)
      BY <2>1 DEF Agrees
    <3>2. CASE i = n + 1
      BY <2>4, <3>1, <3>2
    <3>3. CASE i \in 1..n
      BY <2>2, <2>4, <3>1, <3>3 DEF InteropInv
    <3>4. QED
      BY <2>2, <2>4, <2>5, <3>2, <3>3
  <2>6. Len(conserves') <= Len(sources')
    BY <2>1, <2>2, <2>4
  <2>7. merged' = "open" /\ sources' \in Batches
    BY <2>1 DEF InteropInv
  <2>8. QED
    BY <2>4, <2>5, <2>6, <2>7 DEF InteropInv
<1>3. CASE MergeSources
  BY <1>3 DEF MergeSources, InteropInv, Agrees
<1>4. QED
  BY <1>1, <1>2, <1>3 DEF InteropNext

\* Sources that unify are pairwise comparable, and within two tolerances of each other.
LEMMA UnifiedAreClose ==
  ASSUME InteropInv, Unifies(sources), NEW i \in DOMAIN sources, NEW j \in DOMAIN sources,
         sources[1].money # NoMoney, sources[i].money # NoMoney, sources[j].money # NoMoney
  PROVE  /\ sources[i].money.currency = sources[j].money.currency
         /\ sources[i].money.amount < sources[j].money.amount + 2 * Eps
<1>1. 1 \in DOMAIN sources /\ i \in 1..Len(sources) /\ j \in 1..Len(sources) /\ Len(sources) \in Nat
  BY SourcesType
<1>2. ASSUME NEW k \in DOMAIN sources, sources[k].money # NoMoney
      PROVE  /\ sources[k].money.amount \in Nat
             /\ sources[k].money.currency = sources[1].money.currency
             /\ MoneyEquals(sources[k].money.amount, sources[1].money.amount)
  <2>1. sources[k].money \in Money
    BY <1>2, SourcesType
  <2>2. ~Differs(sources[1], sources[k])
    <3>1. CASE k = 1
      BY <1>1, <3>1, SameSource, SourcesType
    <3>2. CASE k \in 2..Len(sources)
      BY <3>2 DEF Unifies
    <3>3. QED
      BY <1>1, <3>1, <3>2, SourcesType
  <2>3. QED
    BY <1>2, <2>1, <2>2 DEF Differs, Money
<1>3. sources[1].money.amount \in Nat /\ Eps \in Nat
  BY <1>1, <1>2, MoneyAssumption
<1>4. /\ sources[i].money.amount \in Nat /\ sources[j].money.amount \in Nat
      /\ sources[i].money.currency = sources[j].money.currency
      /\ MoneyEquals(sources[i].money.amount, sources[1].money.amount)
      /\ MoneyEquals(sources[j].money.amount, sources[1].money.amount)
  BY <1>2
<1>5. ASSUME NEW x \in Nat, NEW y \in Nat, NEW z \in Nat, MoneyEquals(x, z), MoneyEquals(y, z)
      PROVE  x < y + 2 * Eps
  BY <1>3, <1>5 DEF MoneyEquals
<1>6. QED
  BY <1>3, <1>4, <1>5

\* Sources merge when the primary is sound and no line of the report drifts; a line that
\* conserves agrees with the primary, and over a sound primary every line that agrees conserves;
\* what merges is one picture although the tolerance is not transitive: reconcile() and unify(),
\* for any number of sources.
THEOREM PicturesAreWhole == InteropSpec => []PictureIsWhole
<1>1. InteropInv => PictureIsWhole
  <2> SUFFICES ASSUME InteropInv PROVE PictureIsWhole
    OBVIOUS
  <2>1. ASSUME merged # "open", sources # <<>>
        PROVE  merged = "ok" <=> sources[1].sound /\ \A i \in DOMAIN conserves : conserves[i]
    <3>1. DOMAIN conserves = 1..Len(sources) /\ Len(sources) \in Nat
      BY <2>1, SourcesType DEF InteropInv
    <3>2. \A i \in 1..Len(sources) :
            conserves[i] <=> i = 1 \/ (~Differs(sources[1], sources[i]) /\ sources[1].sound)
      BY <3>1, PairUnifies DEF InteropInv, Agrees
    <3>3. \A i \in 1..Len(sources) : i = 1 \/ i \in 2..Len(sources)
      BY <3>1
    <3>4. (sources[1].sound /\ \A i \in 1..Len(sources) : conserves[i]) <=> Unifies(sources)
      BY <2>1, <3>1, <3>2, <3>3 DEF Unifies
    <3>5. QED
      BY <2>1, <3>1, <3>4 DEF InteropInv
  <2>2. ASSUME merged = "ok", NEW i \in DOMAIN sources, NEW j \in DOMAIN sources,
               sources[1].money # NoMoney, sources[i].money # NoMoney, sources[j].money # NoMoney
        PROVE  /\ sources[i].money.currency = sources[j].money.currency
               /\ sources[i].money.amount < sources[j].money.amount + 2 * Eps
    <3>1. Unifies(sources)
      BY <2>2 DEF InteropInv
    <3>2. QED
      BY <2>2, <3>1, UnifiedAreClose
  <2>3. ASSUME NEW i \in DOMAIN conserves
        PROVE  /\ conserves[i] => ~Differs(sources[1], sources[i])
               /\ sources[1].sound /\ ~Differs(sources[1], sources[i]) => conserves[i]
    <3>1. 1 \in DOMAIN sources /\ i \in DOMAIN sources
      BY <2>3, SourcesType DEF InteropInv
    <3>2. conserves[i] <=> i = 1 \/ (~Differs(sources[1], sources[i]) /\ sources[1].sound)
      BY <2>3, <3>1, PairUnifies DEF InteropInv, Agrees
    <3>3. ~Differs(sources[1], sources[1])
      BY <3>1, SameSource, SourcesType
    <3>4. QED
      BY <3>2, <3>3
  <2>4. QED
    BY <2>1, <2>2, <2>3 DEF PictureIsWhole
<1>2. QED
  BY <1>1, InteropStart, InteropKeeps, PTL DEF InteropSpec

-----------------------------------------------------------------------------
(* Migrations.  While links are followed the chain is a path from the source to the    *)
(* cursor that passes no version twice; while hops are applied there is a course of    *)
(* worlds from the original to the present one, every one after it sound.              *)

\* The hops chosen so far, as a path.
IsPath(hops) ==
  /\ \A i \in 2..Len(hops) : hops[i - 1].to = hops[i].from
  /\ source # Absent =>
       /\ hops # <<>> => hops[1].from = source
       /\ \A i, j \in DOMAIN hops : i # j => hops[i].from # hops[j].from

EndOf(hops) == IF hops = <<>> THEN source ELSE hops[Len(hops)].to

Hops == [from : Versions, to : Versions, transform : [Worlds -> Worlds]]

ChainInv ==
  /\ migrations \in Seq(Hops) /\ chain \in Seq(Hops)
  /\ stage \in {"order", "follow", "apply", "ok", "chain", "audit"}
  /\ stage = "order" => chain = <<>> /\ cursor = source
  /\ stage = "follow" => source # Absent /\ IsPath(chain) /\ cursor = EndOf(chain)
  /\ stage \in {"apply", "ok"} /\ migrations # <<>> =>
       /\ IsPath(chain)
       /\ source # Absent /\ target # Absent => target = EndOf(chain)

\* The course so far.
CourseInv ==
  /\ done \in 0..Len(chain)
  /\ stage \in {"order", "follow"} => done = 0
  /\ stage = "ok" => done = Len(chain)
  /\ \E made \in [0..done -> Worlds] :
       Course(done, made) /\ made[done] = current /\ \A n \in 1..done : made[n] \in Sound

\* A link from a version the chain has not passed makes a longer path.
LEMMA LongerPath ==
  ASSUME NEW hops \in Seq(Hops), IsPath(hops), source # Absent, NEW hop \in Hops,
         hop.from = EndOf(hops), \A i \in DOMAIN hops : hops[i].from # hop.from
  PROVE  IsPath(Append(hops, hop)) /\ EndOf(Append(hops, hop)) = hop.to
<1> DEFINE n == Len(hops)
           more == Append(hops, hop)
<1>1. /\ n \in Nat /\ DOMAIN hops = 1..n /\ DOMAIN more = 1..(n + 1) /\ Len(more) = n + 1
      /\ more[n + 1] = hop /\ \A i \in 1..n : more[i] = hops[i]
  BY AppendProperties, LenProperties
<1>2. more # <<>> /\ (hops = <<>> <=> n = 0)
  BY <1>1, EmptySeq
<1> HIDE DEF n, more
<1>3. \A i \in 2..(n + 1) : more[i - 1].to = more[i].from
  <2> SUFFICES ASSUME NEW i \in 2..(n + 1) PROVE more[i - 1].to = more[i].from
    OBVIOUS
  <2>1. CASE i = n + 1
    <3>1. n # 0 /\ n \in 1..n /\ i - 1 = n
      BY <1>1, <2>1
    <3>2. EndOf(hops) = hops[n].to
      BY <1>2, <3>1 DEF EndOf, n
    <3>3. QED
      BY <1>1, <2>1, <3>1, <3>2
  <2>2. CASE i \in 2..n
    <3>1. i - 1 \in 1..n /\ i \in 1..n
      BY <1>1, <2>2
    <3>2. QED
      BY <1>1, <2>2, <3>1 DEF IsPath, n
  <2>3. QED
    BY <1>1, <2>1, <2>2
<1>4. more[1].from = source
  <2>1. CASE n = 0
    BY <1>1, <1>2, <2>1 DEF EndOf
  <2>2. CASE n # 0
    <3>1. 1 \in 1..n /\ hops # <<>>
      BY <1>1, <1>2, <2>2
    <3>2. QED
      BY <1>1, <3>1 DEF IsPath
  <2>3. QED
    BY <2>1, <2>2
<1>5. \A i, j \in 1..(n + 1) : i # j => more[i].from # more[j].from
  <2> SUFFICES ASSUME NEW i \in 1..(n + 1), NEW j \in 1..(n + 1), i # j
               PROVE  more[i].from # more[j].from
    OBVIOUS
  <2>1. \A k \in 1..n : more[k].from # hop.from
    BY <1>1
  <2>2. CASE i = n + 1
    BY <1>1, <2>1, <2>2
  <2>3. CASE j = n + 1
    BY <1>1, <2>1, <2>3
  <2>4. CASE i \in 1..n /\ j \in 1..n
    BY <1>1, <2>4 DEF IsPath
  <2>5. QED
    BY <1>1, <2>2, <2>3, <2>4
<1>6. EndOf(more) = hop.to
  BY <1>1, <1>2 DEF EndOf
<1>7. QED
  BY <1>1, <1>3, <1>4, <1>5, <1>6 DEF IsPath, more

LEMMA ChainStart == MigrationInit => ChainInv
<1> SUFFICES ASSUME MigrationInit PROVE ChainInv
  OBVIOUS
<1>1. migrations \in Seq(Hops)
  BY OfferedAssumption DEF MigrationInit, Hops
<1>2. chain = <<>> /\ chain \in Seq(Hops)
  BY EmptySeq DEF MigrationInit
<1>3. QED
  BY <1>1, <1>2 DEF MigrationInit, ChainInv

LEMMA ChainKeeps == ChainInv /\ [MigrationNext]_migrationVars => ChainInv'
<1> SUFFICES ASSUME ChainInv, [MigrationNext]_migrationVars PROVE ChainInv'
  OBVIOUS
<1>1. CASE UNCHANGED migrationVars
  BY <1>1 DEF migrationVars, ChainInv, IsPath, EndOf
<1>2. CASE Order
  <2>1. /\ migrations' = migrations /\ source' = source /\ target' = target /\ cursor' = cursor
        /\ chain = <<>> /\ cursor = source /\ Len(chain) = 0 /\ DOMAIN chain = {}
    BY <1>2 DEF Order, ArgumentsKept, ChainInv
  <2>2. CASE migrations = <<>> /\ stage' = "apply" /\ chain' = chain
    BY <2>1, <2>2 DEF ChainInv
  <2>3. CASE migrations # <<>> /\ source = Absent
    <3>1. CASE Connected(migrations)
      <4>1. stage' = "apply" /\ chain' = migrations
        BY <1>2, <2>3, <3>1 DEF Order
      <4>2. IsPath(migrations)
        BY <2>3, <3>1 DEF IsPath, Connected
      <4>3. IsPath(chain)'
        BY <2>1, <4>1, <4>2 DEF IsPath
      <4>4. QED
        BY <2>1, <2>3, <4>1, <4>3 DEF ChainInv
    <3>2. CASE ~Connected(migrations)
      <4>1. stage' = "chain" /\ chain' = chain
        BY <1>2, <2>3, <3>2 DEF Order
      <4>2. QED
        BY <2>1, <4>1 DEF ChainInv
    <3>3. QED
      BY <3>1, <3>2
  <2>4. CASE migrations # <<>> /\ source # Absent
    <3>1. stage' \in {"chain", "follow"} /\ chain' = chain
      BY <1>2, <2>4 DEF Order
    <3>2. IsPath(chain)' /\ EndOf(chain)' = source
      BY <2>1, <3>1 DEF IsPath, EndOf
    <3>3. QED
      BY <2>1, <2>4, <3>1, <3>2 DEF ChainInv
  <2>5. QED
    BY <1>2, <2>2, <2>3, <2>4 DEF Order
<1>3. CASE Follow
  <2>1. /\ migrations' = migrations /\ source' = source /\ target' = target
        /\ source # Absent /\ IsPath(chain) /\ cursor = EndOf(chain) /\ stage = "follow"
        /\ migrations \in Seq(Hops) /\ chain \in Seq(Hops)
    BY <1>3 DEF Follow, ArgumentsKept, ChainInv
  <2>2. CASE UNCHANGED <<chain, cursor>>
    <3>1. IsPath(chain)' /\ EndOf(chain)' = EndOf(chain) /\ chain' \in Seq(Hops)
      BY <2>1, <2>2 DEF IsPath, EndOf
    <3>2. \/ stage' = "apply" /\ (cursor = target \/ target = Absent)
          \/ stage' = "chain"
          \/ stage' = "follow"
      BY <1>3, <2>1, <2>2 DEF Follow, CycleFound
    <3>3. QED
      BY <2>1, <2>2, <3>1, <3>2 DEF ChainInv
  <2>3. CASE /\ stage' = stage /\ ~Passed(cursor)
             /\ \E i \in From(cursor) :
                  chain' = Append(chain, migrations[i]) /\ cursor' = migrations[i].to
    <3> PICK i \in From(cursor) :
          chain' = Append(chain, migrations[i]) /\ cursor' = migrations[i].to
      BY <2>3
    <3>1. migrations[i] \in Hops /\ migrations[i].from = cursor
      BY <2>1, ElementOfSeq, LenProperties DEF From
    <3>2. \A k \in DOMAIN chain : chain[k].from # migrations[i].from
      BY <2>3, <3>1 DEF Passed
    <3>3. IsPath(Append(chain, migrations[i])) /\ EndOf(Append(chain, migrations[i])) = cursor'
      BY <2>1, <3>1, <3>2, LongerPath
    <3>4. chain' \in Seq(Hops)
      BY <2>1, <3>1, AppendProperties
    <3>5. IsPath(chain)' /\ EndOf(chain)' = cursor'
      BY <2>1, <3>3 DEF IsPath, EndOf
    <3>6. QED
      BY <2>1, <2>3, <3>4, <3>5 DEF ChainInv
  <2>4. QED
    BY <1>3, <2>2, <2>3 DEF Follow
<1>4. CASE Apply
  <2>1. /\ migrations' = migrations /\ source' = source /\ target' = target
        /\ chain' = chain /\ cursor' = cursor /\ stage = "apply"
        /\ stage' \in {"apply", "ok", "audit"}
    BY <1>4 DEF Apply, ArgumentsKept
  <2>2. IsPath(chain)' = IsPath(chain) /\ EndOf(chain)' = EndOf(chain)
    BY <2>1 DEF IsPath, EndOf
  <2>3. QED
    BY <2>1, <2>2 DEF ChainInv
<1>5. QED
  BY <1>1, <1>2, <1>3, <1>4 DEF MigrationNext

LEMMA CourseStart == MigrationInit => CourseInv
<1> SUFFICES ASSUME MigrationInit PROVE CourseInv
  OBVIOUS
<1>1. done = 0 /\ chain = <<>> /\ Len(chain) = 0 /\ current = original /\ original \in Worlds
  BY DEF MigrationInit
<1> DEFINE made == [n \in 0..0 |-> original]
<1>2. made \in [0..done -> Worlds] /\ made[0] = original
  BY <1>1
<1>3. Course(done, made) /\ made[done] = current /\ \A n \in 1..done : made[n] \in Sound
  BY <1>1, <1>2 DEF Course
<1>4. QED
  BY <1>1, <1>2, <1>3 DEF CourseInv, MigrationInit

\* One more hop makes the course one world longer.
LEMMA LongerCourse ==
  ASSUME CourseInv, ChainInv, done # Len(chain)
  PROVE  LET result == chain[done + 1].transform[current]
         IN \E made \in [0..(done + 1) -> Worlds] :
              /\ Course(done + 1, made) /\ made[done + 1] = result
              /\ \A n \in 1..done : made[n] \in Sound
<1> DEFINE result == chain[done + 1].transform[current]
<1> PICK old \in [0..done -> Worlds] :
      Course(done, old) /\ old[done] = current /\ \A n \in 1..done : old[n] \in Sound
  BY DEF CourseInv
<1>1. done \in Nat /\ Len(chain) \in Nat /\ done < Len(chain) /\ done + 1 \in 1..Len(chain)
  BY LenProperties DEF CourseInv, ChainInv
<1>2. chain[done + 1] \in Hops /\ current \in Worlds
  BY <1>1, LenProperties, ElementOfSeq DEF ChainInv
<1>3. result \in Worlds
  BY <1>2 DEF Hops
<1> DEFINE made == [n \in 0..(done + 1) |-> IF n = done + 1 THEN result ELSE old[n]]
<1>4. /\ made \in [0..(done + 1) -> Worlds] /\ made[done + 1] = result
      /\ \A n \in 0..done : made[n] = old[n]
  BY <1>1, <1>3
<1> HIDE DEF made, result
<1>5. Course(done + 1, made)
  <2>1. made[0] = original
    BY <1>1, <1>4 DEF Course
  <2>2. ASSUME NEW i \in 1..(done + 1) PROVE made[i] = chain[i].transform[made[i - 1]]
    <3>1. CASE i = done + 1
      <4>1. i - 1 = done /\ done \in 0..done
        BY <1>1, <3>1
      <4>2. made[i - 1] = current
        BY <1>4, <4>1
      <4>3. QED
        BY <1>4, <3>1, <4>2 DEF result
    <3>2. CASE i \in 1..done
      <4>1. i \in 0..done /\ i - 1 \in 0..done
        BY <1>1, <3>2
      <4>2. old[i] = chain[i].transform[old[i - 1]]
        BY <3>2 DEF Course
      <4>3. QED
        BY <1>4, <4>1, <4>2
    <3>3. QED
      BY <1>1, <2>2, <3>1, <3>2
  <2>3. QED
    BY <2>1, <2>2 DEF Course
<1>6. \A n \in 1..done : made[n] \in Sound
  BY <1>1, <1>4
<1>7. QED
  BY <1>4, <1>5, <1>6 DEF result

LEMMA CourseKeeps == ChainInv /\ CourseInv /\ [MigrationNext]_migrationVars => CourseInv'
<1> SUFFICES ASSUME ChainInv, CourseInv, [MigrationNext]_migrationVars PROVE CourseInv'
  OBVIOUS
<1>1. CASE UNCHANGED migrationVars
  BY <1>1 DEF migrationVars, CourseInv, Course
<1>2. CASE Order \/ Follow
  <2>1. /\ done' = done /\ current' = current /\ original' = original /\ done = 0
        /\ stage' # "ok"
    BY <1>2 DEF Order, Follow, CycleFound, ArgumentsKept, CourseInv
  <2>2. Len(chain') \in Nat
    BY <1>2, ChainKeeps, LenProperties DEF ChainInv, MigrationNext
  <2>3. \A made : Course(0, made)' <=> Course(0, made)
    BY <2>1 DEF Course
  <2>4. \E made \in [0..0 -> Worlds] :
          Course(0, made) /\ made[0] = current /\ \A n \in 1..0 : made[n] \in Sound
    BY <2>1 DEF CourseInv
  <2>5. QED
    BY <2>1, <2>2, <2>3, <2>4 DEF CourseInv
<1>3. CASE Apply
  <2>1. original' = original /\ chain' = chain /\ stage = "apply"
    BY <1>3 DEF Apply, ArgumentsKept
  <2>2. \A k, made : Course(k, made)' <=> Course(k, made)
    BY <2>1 DEF Course
  <2>3. CASE UNCHANGED <<done, current>>
    <3>1. stage' = "ok" => done = Len(chain)
      BY <1>3 DEF Apply
    <3>2. stage' \in {"ok", "audit", "apply"}
      BY <1>3 DEF Apply
    <3>3. QED
      BY <2>1, <2>2, <2>3, <3>1, <3>2 DEF CourseInv
  <2>4. CASE ~UNCHANGED <<done, current>>
    <3> DEFINE result == chain[done + 1].transform[current]
    <3>1. /\ done # Len(chain) /\ result \in Sound /\ current' = result /\ done' = done + 1
          /\ stage' = "apply"
      BY <1>3, <2>4 DEF Apply
    <3>2. done' \in 0..Len(chain')
      BY <2>1, <3>1, LenProperties DEF CourseInv, ChainInv
    <3>3. PICK made \in [0..(done + 1) -> Worlds] :
            /\ Course(done + 1, made) /\ made[done + 1] = result
            /\ \A n \in 1..done : made[n] \in Sound
      BY <3>1, LongerCourse
    <3> HIDE DEF result
    <3>4. \A n \in 1..(done + 1) : made[n] \in Sound
      <4>1. \A n \in 1..(done + 1) : n = done + 1 \/ n \in 1..done
        BY DEF CourseInv
      <4>2. QED
        BY <3>1, <3>3, <4>1
    <3>5. QED
      BY <2>2, <3>1, <3>2, <3>3, <3>4 DEF CourseInv
  <2>5. QED
    BY <2>3, <2>4
<1>4. QED
  BY <1>1, <1>2, <1>3 DEF MigrationNext

\* Where the audit has stopped a migration: at the first hop that makes an unsound world.
AuditInv ==
  stage = "audit" =>
    \E made \in [0..(done + 1) -> Worlds] :
      /\ Course(done + 1, made)
      /\ made[done + 1] \notin Sound /\ \A n \in 1..done : made[n] \in Sound

LEMMA AuditKeeps == ChainInv /\ CourseInv /\ AuditInv /\ [MigrationNext]_migrationVars => AuditInv'
<1> SUFFICES ASSUME ChainInv, CourseInv, AuditInv, [MigrationNext]_migrationVars, stage' = "audit"
             PROVE  AuditInv'
  BY DEF AuditInv
<1>1. CASE UNCHANGED migrationVars
  BY <1>1 DEF migrationVars, AuditInv, Course
<1>2. CASE Apply
  <2>1. /\ original' = original /\ chain' = chain /\ done' = done /\ done # Len(chain)
        /\ chain[done + 1].transform[current] \notin Sound
    BY <1>2 DEF Apply, ArgumentsKept
  <2>2. \A k, made : Course(k, made)' <=> Course(k, made)
    BY <2>1 DEF Course
  <2>3. \E made \in [0..(done + 1) -> Worlds] :
          /\ Course(done + 1, made)
          /\ made[done + 1] \notin Sound /\ \A n \in 1..done : made[n] \in Sound
    BY <2>1, LongerCourse
  <2>4. QED
    BY <2>1, <2>2, <2>3 DEF AuditInv
<1>3. CASE Order \/ Follow
  BY <1>3 DEF Order, Follow, CycleFound
<1>4. QED
  BY <1>1, <1>2, <1>3 DEF MigrationNext

\* A migration hands back only worlds that are sound after every hop, along a chain that
\* leads from the version asked for to the version asked for: migrate().
THEOREM MigratesSoundly == MigrationSpec => []MigratedSoundly
<1>1. MigrationInit => AuditInv
  BY DEF MigrationInit, AuditInv
<1>2. ChainInv => ChainLeadsToTarget
  BY DEF ChainInv, ChainLeadsToTarget, IsPath, EndOf
<1>3. ChainInv /\ CourseInv /\ AuditInv => HandsBackSoundWorlds
  BY DEF CourseInv, AuditInv, HandsBackSoundWorlds
<1>4. QED
  BY <1>1, <1>2, <1>3, ChainStart, ChainKeeps, CourseStart, CourseKeeps, AuditKeeps, PTL
     DEF MigrationSpec, MigratedSoundly

-----------------------------------------------------------------------------
(* The protocol bridge.  guardAction tells every violation of the world a move would make; *)
(* the session's model of it only asks whether there is one.  The two agree, and what a    *)
(* verdict says is right because a move can only disturb what its commitment is cited for. *)

\* The states and the actors the host's world can come to hold.
MoveTargets == States \cup {MapProtocolAction(c.protocol, c.action) : c \in Calls}
MoveActors == Actors \cup {c.action.actor : c \in Calls}
HeldEntry == [from : MoveTargets, to : MoveTargets, at : Nat, actor : MoveActors]
HeldCommitment == [state : MoveTargets, history : Seq(HeldEntry)]

\* The latest stamp of a commitment is a time, and a move keeps its type.
LEMMA HeldType ==
  ASSUME NEW c \in HeldCommitment
  PROVE  /\ LastAt(c) \in Nat
         /\ \A to \in MoveTargets, actor \in MoveActors, at \in Nat :
              Transitioned(c, to, actor, at) \in HeldCommitment
<1>1. c.history \in Seq(HeldEntry) /\ c.state \in MoveTargets
  BY DEF HeldCommitment
<1>2. LastAt(c) \in Nat
  <2>1. c.history # <<>> => c.history[Len(c.history)] \in HeldEntry
    BY <1>1
  <2>2. \A e \in HeldEntry : e.at \in Nat
    BY DEF HeldEntry
  <2>3. QED
    BY <2>1, <2>2 DEF LastAt
<1>3. ASSUME NEW to \in MoveTargets, NEW actor \in MoveActors, NEW at \in Nat
      PROVE  Transitioned(c, to, actor, at) \in HeldCommitment
  <2>1. [from |-> c.state, to |-> to, at |-> at, actor |-> actor] \in HeldEntry
    BY <1>1 DEF HeldEntry
  <2>2. QED
    BY <1>1, <2>1 DEF Transitioned, HeldCommitment
<1>4. QED
  BY <1>2, <1>3

\* A history is cited for nothing exactly when the yes/no audit accepts it.
LEMMA NoHistoryViolations ==
  ASSUME NEW c \in HeldCommitment, NEW x
  PROVE  HistoryViolations(x, c.history) = {} <=> CheckI2(c)
<1> DEFINE h == c.history
           illegal == {j \in DOMAIN h : ~IsValidCommitmentTransition(h[j].from, h[j].to)}
           back == {j \in 2..Len(h) : h[j].at < h[j - 1].at}
<1>1. HistoryViolations(x, h) = {Violation("I-2", x, i) : i \in illegal} \cup {Violation("I-2", x, -i) : i \in back}
  BY Zenon DEF HistoryViolations
<1>2. /\ illegal = {} <=> \A i \in DOMAIN h : IsValidCommitmentTransition(h[i].from, h[i].to)
      /\ back = {} <=> \A i \in 2..Len(h) : ~(h[i].at < h[i - 1].at)
  BY Zenon
<1> HIDE DEF illegal, back
<1>3. HistoryViolations(x, h) = {} <=> illegal = {} /\ back = {}
  BY <1>1
<1>4. Len(h) \in Nat /\ \A i \in 1..Len(h) : h[i].at \in Nat
  <2>1. h \in Seq(HeldEntry)
    BY DEF HeldCommitment
  <2>2. \A e \in HeldEntry : e.at \in Nat
    BY DEF HeldEntry
  <2>3. QED
    BY <2>1, <2>2
<1>5. ASSUME NEW i \in 2..Len(h)
      PROVE  ~(h[i].at < h[i - 1].at) <=> h[i].at >= h[i - 1].at
  <2>1. i \in 1..Len(h) /\ i - 1 \in 1..Len(h)
    BY <1>4
  <2>2. h[i].at \in Nat /\ h[i - 1].at \in Nat
    BY <1>4, <2>1
  <2> HIDE DEF h
  <2>3. QED
    BY <2>2
<1>6. QED
  BY <1>2, <1>3, <1>5 DEF CheckI2

\* The list of violations with its parts spelled out.
LEMMA ViolationsAre ==
  ASSUME NEW w, NEW f
  PROVE  Violations(w, f) =
              {Violation("I-1", x, 0) : x \in {y \in DOMAIN w : ~CheckI1([z \in {y} |-> w[z]])}}
              \cup (UNION {HistoryViolations(x, w[x].history) : x \in DOMAIN w})
              \cup {Violation("I-3", x, 0) : x \in {y \in DOMAIN w : ~CheckI3(y, w[y])}}
              \cup {Violation("I-4", IF WasAccepted(w[f[x].commitment]) THEN None ELSE f[x].commitment, x) :
                       x \in {y \in DOMAIN f : \E z \in DOMAIN w : ~CheckI4(z, w[z], [k \in {y} |-> f[k]])}}
              \cup {Violation("I-6", x, 0) : x \in {y \in DOMAIN w : ~CheckI6(y)}}
BY Zenon DEF Violations

\* The audit that lists every violation finds none exactly when the audit that answers
\* yes or no says yes: auditCommerce.
LEMMA AuditsAgree ==
  ASSUME NEW w, \A x \in DOMAIN w : w[x] \in HeldCommitment, NEW f
  PROVE  Violations(w, f) = {} <=> AuditClean(w, f)
<1> DEFINE i1 == {Violation("I-1", x, 0) : x \in {y \in DOMAIN w : ~CheckI1([z \in {y} |-> w[z]])}}
           i2 == UNION {HistoryViolations(x, w[x].history) : x \in DOMAIN w}
           i3 == {Violation("I-3", x, 0) : x \in {y \in DOMAIN w : ~CheckI3(y, w[y])}}
           i4 == {Violation("I-4", IF WasAccepted(w[f[x].commitment]) THEN None ELSE f[x].commitment, x) :
                    x \in {y \in DOMAIN f : \E z \in DOMAIN w : ~CheckI4(z, w[z], [k \in {y} |-> f[k]])}}
           i6 == {Violation("I-6", x, 0) : x \in {y \in DOMAIN w : ~CheckI6(y)}}
<1>1. i1 = {} <=> CheckI1(w)
  <2>1. CheckI1(w) <=> \A x \in DOMAIN w : CheckI1([z \in {x} |-> w[z]])
    BY DEF CheckI1
  <2>2. i1 = {} <=> \A x \in DOMAIN w : CheckI1([z \in {x} |-> w[z]])
    BY Zenon
  <2>3. QED
    BY <2>1, <2>2, Zenon
<1>2. i2 = {} <=> \A c \in DOMAIN w : CheckI2(w[c])
  <2>1. i2 = {} <=> \A c \in DOMAIN w : HistoryViolations(c, w[c].history) = {}
    OBVIOUS
  <2>2. QED
    BY <2>1, NoHistoryViolations
<1>3. i3 = {} <=> \A c \in DOMAIN w : CheckI3(c, w[c])
  OBVIOUS
<1>4. i4 = {} <=> \A c \in DOMAIN w : CheckI4(c, w[c], f)
  <2>1. ASSUME NEW c \in DOMAIN w
        PROVE  CheckI4(c, w[c], f) <=> \A y \in DOMAIN f : CheckI4(c, w[c], [k \in {y} |-> f[k]])
    BY DEF CheckI4
  <2>2. i4 = {} <=> \A c \in DOMAIN w, y \in DOMAIN f : CheckI4(c, w[c], [k \in {y} |-> f[k]])
    BY Zenon
  <2>3. QED
    BY <2>1, <2>2, Zenon
<1>5. i6 = {} <=> \A c \in DOMAIN w : CheckI6(c)
  OBVIOUS
<1>6. Violations(w, f) = i1 \cup i2 \cup i3 \cup i4 \cup i6
  BY ViolationsAre, Zenon
<1> HIDE DEF i1, i2, i3, i4, i6
<1>7. QED
  BY <1>1, <1>2, <1>3, <1>4, <1>5, <1>6 DEF AuditClean

\* The guard that tells every violation and what else is legal allows a move exactly when
\* the guard the session stands on accepts it, whatever the world: guardAction.
THEOREM GuardsAgree ==
  ASSUME NEW w \in [Commitments -> HeldCommitment], NEW f, NEW a, a.to \in MoveTargets,
         a.actor \in MoveActors, NEW expected, NEW at \in Nat
  PROVE  GuardAction(w, f, a, expected, at).ok <=> GuardAccepts(w, f, a, expected, at)
<1> DEFINE next == MoveIn(w, a, at)
<1>1. Violations(next, f) = {} <=> AuditClean(next, f)
  <2>1. ASSUME NEW x \in Commitments
        PROVE  Transitioned(w[x], a.to, a.actor, at) \in HeldCommitment
    BY HeldType
  <2>2. DOMAIN next = Commitments /\ \A x \in Commitments : next[x] \in HeldCommitment
    BY <2>1 DEF MoveIn
  <2> HIDE DEF next
  <2>3. QED
    BY <2>2, AuditsAgree
<1> HIDE DEF next
<1>2. a.commitment \in Commitments => (at < LastAt(w[a.commitment]) <=> ~(at >= LastAt(w[a.commitment])))
  <2>1. ASSUME NEW x \in Commitments PROVE LastAt(w[x]) \in Nat
    BY HeldType
  <2>2. QED
    BY <2>1
<1>3. QED
  BY <1>1, <1>2 DEF GuardAction, GuardAccepts, TransitionOk, TurnedDown, Blocked, next

\* A rejection with alternatives: the move was illegal, or the verdict lists what it would
\* violate and what of the legal moves is bounded.
RefusedWithAdvice(w, f, a, at, v) ==
  LET legal == CommitmentTransitions[w[a.commitment].state.type]
  IN \/ /\ a.to.type \notin legal
        /\ v.alternatives = [t \in legal |-> t = None]
     \/ /\ v.violations = Violations(MoveIn(w, a, at), f)
        /\ v.alternatives = [t \in legal |-> t = Bounded(a, v.violations)]

\* What a verdict says: an allowed move made a world without violations; a rejection that
\* offers alternatives refused the move as illegal, or lists the violations it would make.
LEMMA GuardDecides ==
  ASSUME NEW w, NEW f, NEW a, NEW expected, NEW at, NEW v, v = GuardAction(w, f, a, expected, at)
  PROVE  LET c == a.commitment
         IN /\ v.ok \in BOOLEAN
            /\ v.ok => /\ c \in DOMAIN w /\ IsValidCommitmentTransition(w[c].state, a.to)
                       /\ ~(at < LastAt(w[c]))
                       /\ v.next = MoveIn(w, a, at) /\ Violations(v.next, f) = {}
            /\ ~v.ok /\ v.alternatives # None =>
                 c \in DOMAIN w /\ RefusedWithAdvice(w, f, a, at, v)
<1> DEFINE c == a.commitment
           state == w[c].state
           found == Violations(MoveIn(w, a, at), f)
<1> HIDE DEF found
<1>1. CASE c \notin DOMAIN w
  BY <1>1 DEF GuardAction, TurnedDown, Blocked
<1>2. CASE c \in DOMAIN w /\ VersionConflict(w[c], expected)
  BY <1>2 DEF GuardAction, TurnedDown, Blocked
<1>3. CASE c \in DOMAIN w /\ ~VersionConflict(w[c], expected) /\ ~IsValidCommitmentTransition(state, a.to)
  BY <1>3 DEF RefusedWithAdvice, GuardAction, TurnedDown, Blocked, Alternatives, IsValidCommitmentTransition
<1>4. CASE /\ c \in DOMAIN w /\ ~VersionConflict(w[c], expected)
           /\ IsValidCommitmentTransition(state, a.to) /\ at < LastAt(w[c])
  BY <1>4 DEF GuardAction, TurnedDown, Blocked
<1>5. CASE /\ c \in DOMAIN w /\ ~VersionConflict(w[c], expected)
           /\ IsValidCommitmentTransition(state, a.to) /\ ~(at < LastAt(w[c])) /\ found # {}
  <2>1. v = Blocked(found, Alternatives(state, Bounded(a, found)))
    BY <1>5 DEF GuardAction, found
  <2>2. QED
    BY <1>5, <2>1 DEF RefusedWithAdvice, Blocked, Alternatives, found
<1>6. CASE /\ c \in DOMAIN w /\ ~VersionConflict(w[c], expected)
           /\ IsValidCommitmentTransition(state, a.to) /\ ~(at < LastAt(w[c])) /\ found = {}
  <2>1. v = [ok |-> TRUE, next |-> MoveIn(w, a, at)]
    BY <1>6 DEF GuardAction, found
  <2>2. QED
    BY <1>6, <2>1 DEF found
<1>7. QED
  BY <1>1, <1>2, <1>3, <1>4, <1>5, <1>6

\* In a world that audited, a change of one commitment makes violations that cite that
\* commitment or none.
LEMMA OnlyTheMovedIsCited ==
  ASSUME NEW w, \A x \in DOMAIN w : w[x] \in HeldCommitment, NEW f,
         NEW c \in DOMAIN w, NEW d \in HeldCommitment, Violations(w, f) = {},
         NEW n \in Violations([w EXCEPT ![c] = d], f), n.of # None
  PROVE  n.of = c
<1> DEFINE u == [w EXCEPT ![c] = d]
<1>1. /\ DOMAIN u = DOMAIN w /\ \A x \in DOMAIN w : x # c => u[x] = w[x]
      /\ \A x \in DOMAIN u : u[x] \in HeldCommitment
  OBVIOUS
<1>2. AuditClean(w, f)
  BY AuditsAgree
<1> HIDE DEF u
<1>3. ASSUME NEW x \in DOMAIN u, n = Violation("I-1", x, 0), ~CheckI1([y \in {x} |-> u[y]])
      PROVE  x = c
  BY <1>1, <1>2, <1>3 DEF AuditClean, CheckI1
<1>4. ASSUME NEW x \in DOMAIN u, n \in HistoryViolations(x, u[x].history)
      PROVE  n.of = c
  <2>1. n.of = x
    BY <1>4 DEF HistoryViolations, Violation
  <2>2. ~CheckI2(u[x])
    BY <1>1, <1>4, NoHistoryViolations
  <2>3. QED
    BY <2>1, <2>2, <1>1, <1>2 DEF AuditClean
<1>5. ASSUME NEW x \in DOMAIN u, ~CheckI3(x, u[x])
      PROVE  x = c
  BY <1>1, <1>2, <1>5 DEF AuditClean
<1>6. ASSUME NEW y \in DOMAIN f, NEW x \in DOMAIN u, ~CheckI4(x, u[x], [z \in {y} |-> f[z]])
      PROVE  f[y].commitment = x /\ x = c
  <2>1. f[y].commitment = x
    BY <1>6 DEF CheckI4
  <2>2. ~CheckI4(x, u[x], f)
    BY <1>6 DEF CheckI4
  <2>3. QED
    BY <2>1, <2>2, <1>1, <1>2 DEF AuditClean
<1>7. ASSUME NEW x \in DOMAIN u, ~CheckI6(x)
      PROVE  FALSE
  BY <1>1, <1>2, <1>7 DEF AuditClean
<1>8. \/ \E x \in DOMAIN u : n = Violation("I-1", x, 0) /\ ~CheckI1([y \in {x} |-> u[y]])
      \/ \E x \in DOMAIN u : n \in HistoryViolations(x, u[x].history)
      \/ \E x \in DOMAIN u : n = Violation("I-3", x, 0) /\ ~CheckI3(x, u[x])
      \/ \E y \in DOMAIN f : /\ n = Violation("I-4", IF WasAccepted(u[f[y].commitment]) THEN None
                                                     ELSE f[y].commitment, y)
                             /\ \E x \in DOMAIN u : ~CheckI4(x, u[x], [z \in {y} |-> f[z]])
      \/ \E x \in DOMAIN u : ~CheckI6(x)
  <2> DEFINE p1 == {Violation("I-1", x, 0) : x \in {y \in DOMAIN u : ~CheckI1([z \in {y} |-> u[z]])}}
             p2 == UNION {HistoryViolations(x, u[x].history) : x \in DOMAIN u}
             p3 == {Violation("I-3", x, 0) : x \in {y \in DOMAIN u : ~CheckI3(y, u[y])}}
             p4 == {Violation("I-4", IF WasAccepted(u[f[x].commitment]) THEN None ELSE f[x].commitment, x) :
                      x \in {y \in DOMAIN f : \E z \in DOMAIN u : ~CheckI4(z, u[z], [k \in {y} |-> f[k]])}}
             p6 == {Violation("I-6", x, 0) : x \in {y \in DOMAIN u : ~CheckI6(y)}}
  <2>1. n \in Violations(u, f)
    BY DEF u
  <2>2. n \in p1 \cup p2 \cup p3 \cup p4 \cup p6
    BY <2>1, ViolationsAre, Zenon
  <2>3. /\ n \in p1 => \E x \in DOMAIN u : n = Violation("I-1", x, 0) /\ ~CheckI1([y \in {x} |-> u[y]])
        /\ n \in p2 => \E x \in DOMAIN u : n \in HistoryViolations(x, u[x].history)
        /\ n \in p3 => \E x \in DOMAIN u : n = Violation("I-3", x, 0) /\ ~CheckI3(x, u[x])
        /\ n \in p4 => \E y \in DOMAIN f : /\ n = Violation("I-4", IF WasAccepted(u[f[y].commitment]) THEN None
                                                                     ELSE f[y].commitment, y)
                                           /\ \E x \in DOMAIN u : ~CheckI4(x, u[x], [z \in {y} |-> f[z]])
        /\ n \in p6 => \E x \in DOMAIN u : ~CheckI6(x)
    BY Zenon
  <2> HIDE DEF p1, p2, p3, p4, p6
  <2>4. QED
    BY <2>2, <2>3, Zenon
<1>9. CASE \E x \in DOMAIN u : n = Violation("I-1", x, 0) /\ ~CheckI1([y \in {x} |-> u[y]])
  BY <1>9, <1>3 DEF Violation
<1>10. CASE \E x \in DOMAIN u : n \in HistoryViolations(x, u[x].history)
  BY <1>10, <1>4
<1>11. CASE \E x \in DOMAIN u : n = Violation("I-3", x, 0) /\ ~CheckI3(x, u[x])
  BY <1>11, <1>5 DEF Violation
<1>12. CASE \E y \in DOMAIN f : /\ n = Violation("I-4", IF WasAccepted(u[f[y].commitment]) THEN None
                                                       ELSE f[y].commitment, y)
                               /\ \E x \in DOMAIN u : ~CheckI4(x, u[x], [z \in {y} |-> f[z]])
  <2>1. PICK y \in DOMAIN f : /\ n.of = IF WasAccepted(u[f[y].commitment]) THEN None ELSE f[y].commitment
                              /\ \E x \in DOMAIN u : ~CheckI4(x, u[x], [z \in {y} |-> f[z]])
    <3> DEFINE four(y) == \E x \in DOMAIN u : ~CheckI4(x, u[x], [z \in {y} |-> f[z]])
    <3>1. PICK y \in DOMAIN f : /\ n = Violation("I-4", IF WasAccepted(u[f[y].commitment]) THEN None
                                                          ELSE f[y].commitment, y)
                                /\ four(y)
      BY <1>12, Zenon
    <3> HIDE DEF four
    <3>2. n.of = IF WasAccepted(u[f[y].commitment]) THEN None ELSE f[y].commitment
      BY <3>1 DEF Violation
    <3>3. QED
      BY <3>1, <3>2, Zenon DEF four
  <2>2. QED
    BY <2>1, <1>6
<1>13. QED
  BY <1>7, <1>8, <1>9, <1>10, <1>11, <1>12

-----------------------------------------------------------------------------

HeldInv ==
  /\ held \in [Commitments -> HeldCommitment]
  /\ \A c \in Commitments : UnbrokenHistory(held[c]) /\ held[c].state.type \in StateTypes

\* A legal move that is not older than the last one keeps a history unbroken.
LEMMA HeldUnbroken ==
  ASSUME NEW c \in HeldCommitment, UnbrokenHistory(c),
         NEW to \in MoveTargets, NEW actor \in MoveActors, NEW at \in Nat, ~(at < LastAt(c))
  PROVE  /\ Transitioned(c, to, actor, at) \in HeldCommitment
         /\ UnbrokenHistory(Transitioned(c, to, actor, at))
<1> DEFINE h == c.history
           n == Len(h)
           e == [from |-> c.state, to |-> to, at |-> at, actor |-> actor]
           g == Append(h, e)
<1>1. h \in Seq(HeldEntry) /\ c.state \in MoveTargets /\ e \in HeldEntry
  BY DEF HeldCommitment, HeldEntry
<1>2. Transitioned(c, to, actor, at) = [state |-> to, history |-> g]
  BY DEF Transitioned
<1>3. /\ n \in Nat /\ g \in Seq(HeldEntry) /\ Len(g) = n + 1 /\ g # <<>>
      /\ g[n + 1] = e /\ \A i \in 1..n : g[i] = h[i]
  BY <1>1
<1>4. g[1].from = Plain("Draft") /\ g[n + 1].to = to
  <2>1. CASE n = 0
    BY <2>1, <1>1, <1>3 DEF UnbrokenHistory
  <2>2. CASE n # 0
    BY <2>2, <1>1, <1>3 DEF UnbrokenHistory
  <2>3. QED
    BY <2>1, <2>2
<1>5. ASSUME NEW i \in 2..(n + 1)
      PROVE  g[i].from = g[i - 1].to /\ g[i].at >= g[i - 1].at
  <2>1. CASE i <= n
    <3>1. g[i] = h[i] /\ g[i - 1] = h[i - 1]
      BY <2>1, <1>3
    <3>2. QED
      BY <2>1, <3>1, <1>1, <1>3 DEF UnbrokenHistory
  <2>2. CASE i = n + 1
    <3>1. n # 0 /\ h # <<>> /\ g[i - 1] = h[n] /\ g[i] = e
      BY <2>2, <1>3
    <3>2. h[n].to = c.state /\ h[n] \in HeldEntry /\ LastAt(c) = h[n].at
      BY <3>1, <1>1, <1>3 DEF UnbrokenHistory, LastAt
    <3>3. QED
      BY <3>1, <3>2 DEF HeldEntry
  <2>3. QED
    BY <2>1, <2>2, <1>3
<1> HIDE DEF g, e
<1>6. QED
  BY <1>1, <1>2, <1>3, <1>4, <1>5 DEF UnbrokenHistory, HeldCommitment

-----------------------------------------------------------------------------

LEMMA LegalTypes == \A t \in StateTypes : CommitmentTransitions[t] \subseteq StateTypes
BY DEF StateTypes, CommitmentTransitions

\* What a protocol says in minor units is what the move gives back: moneyFromMinor, which
\* multiplies by a power of ten and divides by it again.
SaysRefund(minor, to) ==
  to.type = "Refunded" /\ minor \in Int /\ to.amount.amount = minor * 2 * Eps

LEMMA MinorsAreExact ==
  ASSUME NEW minor \in Int, NEW cur \in Currencies
  PROVE  MoneyFromMinor(minor, cur).amount = minor * 2 * Eps
<1>1. \A x \in Int, s \in Nat \ {0} : (x * s) \div s = x
  OBVIOUS
<1>2. minor * 2 * Eps \in Int /\ MinorPerUnit[cur] \in Nat \ {0}
  BY BridgeAssumption, MoneyAssumption
<1>3. QED
  BY <1>1, <1>2 DEF MoneyFromMinor

LEMMA RefundsAreStated ==
  ASSUME NEW c \in Calls, FitsShape(c), MapProtocolAction(c.protocol, c.action) # Gap,
         MapProtocolAction(c.protocol, c.action).type = "Refunded"
  PROVE  SaysRefund(c.action.minor, MapProtocolAction(c.protocol, c.action))
<1> DEFINE p == c.action
           to == MapProtocolAction(c.protocol, p)
<1>1. /\ p.shape \in {"acp", "ucp", "ap2"} /\ c.protocol = p.shape /\ p.currency \in Currencies
      /\ p.minor # None \/ p.shape = "ap2" => p.minor \in Int
  BY BridgeAssumption DEF FitsShape
<1>2. ASSUME NEW words \in {AcpSession, AcpOrder, UcpCart, UcpOrder, Ap2Operation}, to = Meant(words, p)
      PROVE  FALSE
  <2>1. p.move \in DOMAIN words /\ to.type = words[p.move]
    BY <1>2 DEF Meant, Plain
  <2>2. QED
    BY <1>2, <2>1 DEF AcpSession, AcpOrder, UcpCart, UcpOrder, Ap2Operation
<1>3. \/ \E words \in {AcpSession, AcpOrder, UcpCart, UcpOrder, Ap2Operation} : to = Meant(words, p)
      \/ to = RefundOfMinor(p) /\ p.minor \in Int
  <2>1. CASE p.shape = "acp"
    BY <1>1, <2>1 DEF MapProtocolAction, FromAcpAction
  <2>2. CASE p.shape = "ucp"
    BY <1>1, <2>2 DEF MapProtocolAction, FromUcpAction
  <2>3. CASE p.shape = "ap2"
    BY <1>1, <2>3 DEF MapProtocolAction, FromAp2Action
  <2>4. QED
    BY <1>1, <2>1, <2>2, <2>3
<1>4. to = RefundOfMinor(p) /\ p.minor \in Int
  BY <1>2, <1>3
<1>5. QED
  BY <1>1, <1>4, MinorsAreExact DEF RefundOfMinor, SaysRefund

\* The tools judge a move of the world they are handed, or nothing.
LEMMA BridgeSteps ==
  ASSUME [ProtocolsNext]_protocolVars
  PROVE  \/ UNCHANGED toolVars
         \/ \E minor : Told(None, Unjudged, minor)
         \/ \E a, expected, at, minor : /\ a.to \in MoveTargets /\ a.actor \in MoveActors /\ at \in Nat
                                        /\ minor # None => SaysRefund(minor, a.to)
                                        /\ Told(a, Judged(a, expected, at), minor)
<1>1. \A a \in Proposals : a.to \in MoveTargets /\ a.actor \in MoveActors
  BY BridgeAssumption DEF Actions, MoveTargets, MoveActors
<1>2. \A at \in BridgeClocks : at \in Nat
  BY BridgeAssumption
<1>3. ASSUME NEW c \in Calls
      PROVE  LET a == ProtocolMove(c.protocol, c.action) IN a.to \in MoveTargets /\ a.actor \in MoveActors
  BY DEF ProtocolMove, MoveTargets, MoveActors
<1>4. CASE GuardActionTool
  BY <1>1, <1>2, <1>4 DEF GuardActionTool
<1>5. CASE GuardProtocolActionTool
  <2>1. PICK c \in Calls, at \in BridgeClocks :
          IF ~FitsShape(c) \/ MapProtocolAction(c.protocol, c.action) = Gap
          THEN Told(None, Unjudged, None)
          ELSE LET a == ProtocolMove(c.protocol, c.action)
               IN Told(a, Judged(a, None, at), IF a.to.type = "Refunded" THEN c.action.minor ELSE None)
    BY <1>5 DEF GuardProtocolActionTool
  <2>2. CASE ~FitsShape(c) \/ MapProtocolAction(c.protocol, c.action) = Gap
    BY <2>1, <2>2
  <2>3. CASE FitsShape(c) /\ MapProtocolAction(c.protocol, c.action) # Gap
    <3>1. PICK a : a = ProtocolMove(c.protocol, c.action)
      OBVIOUS
    <3>2. PICK minor : minor = IF a.to.type = "Refunded" THEN c.action.minor ELSE None
      OBVIOUS
    <3>3. Told(a, Judged(a, None, at), minor)
      BY <2>1, <2>3, <3>1, <3>2
    <3>4. minor # None => SaysRefund(minor, a.to)
      BY <2>3, <3>1, <3>2, RefundsAreStated DEF ProtocolMove
    <3>5. QED
      BY <1>2, <1>3, <3>1, <3>3, <3>4
  <2>4. QED
    BY <2>2, <2>3
<1>6. CASE MeteredGuard
  <2>1. PICK a \in Proposals : \E expected \in PlannedAgainst(a), at \in BridgeClocks :
          Told(a, Judged(a, expected, at), None)
    BY <1>6 DEF MeteredGuard
  <2>2. QED
    BY <2>1, <1>1, <1>2
<1>7. CASE ResetMetrics
  BY <1>7 DEF ResetMetrics
<1>8. CASE UNCHANGED protocolVars
  BY <1>8 DEF protocolVars
<1>9. QED
  BY <1>4, <1>5, <1>6, <1>7, <1>8 DEF ProtocolsNext

LEMMA BridgeStart == ProtocolsInit => HeldInv
<1> SUFFICES ASSUME ProtocolsInit PROVE HeldInv
  OBVIOUS
<1> DEFINE p == CHOOSE q \in Actors : TRUE
<1>1. p \in Actors
  BY BridgeAssumption
<1> HIDE DEF p
<1>2. ASSUME NEW c \in Commitments
      PROVE  /\ StartsAs[c] \in States /\ StartsAs[c].type \in StateTypes
             /\ Synthesized(StartsAs[c], p) \in Commitment
             /\ Synthesized(StartsAs[c], p).state = StartsAs[c]
             /\ UnbrokenHistory(Synthesized(StartsAs[c], p))
  BY <1>1, BridgeAssumption, SynthesizedType DEF States
<1>3. Commitment \subseteq HeldCommitment
  <2>1. States \subseteq MoveTargets /\ Actors \subseteq MoveActors
    BY DEF MoveTargets, MoveActors
  <2>2. Entry \subseteq HeldEntry
    BY <2>1 DEF Entry, HeldEntry
  <2>3. \A h \in Seq(Entry) : h \in Seq(HeldEntry)
    BY <2>2
  <2>4. QED
    BY <2>1, <2>3 DEF Commitment, HeldCommitment
<1>4. held = [c \in Commitments |-> Synthesized(StartsAs[c], p)]
  BY DEF ProtocolsInit, FirstHeld, p
<1>5. QED
  BY <1>2, <1>3, <1>4 DEF HeldInv

\* The world after an allowed move.
LEMMA AllowedMove ==
  ASSUME HeldInv, NEW a, a.to \in MoveTargets, a.actor \in MoveActors, NEW expected, NEW at \in Nat,
         NEW v, v = Judged(a, expected, at), v.ok
  PROVE  /\ v.next \in [Commitments -> HeldCommitment]
         /\ \A c \in Commitments : UnbrokenHistory(v.next[c]) /\ v.next[c].state.type \in StateTypes
         /\ Violations(v.next, deliveries) = {}
<1> DEFINE k == a.commitment
           d == Transitioned(held[k], a.to, a.actor, at)
<1>1. /\ k \in Commitments /\ IsValidCommitmentTransition(held[k].state, a.to)
      /\ ~(at < LastAt(held[k]))
      /\ v.next = MoveIn(held, a, at) /\ Violations(v.next, deliveries) = {}
  BY GuardDecides DEF Judged, HeldInv
<1>2. d \in HeldCommitment /\ UnbrokenHistory(d)
  BY <1>1, HeldUnbroken DEF HeldInv
<1>3. d.state.type \in StateTypes
  BY <1>1, LegalTypes DEF HeldInv, Transitioned, IsValidCommitmentTransition
<1>4. v.next = [held EXCEPT ![k] = d]
  BY <1>1 DEF MoveIn
<1> HIDE DEF d
<1>5. QED
  BY <1>1, <1>2, <1>3, <1>4 DEF HeldInv

LEMMA BridgeKeeps == HeldInv /\ [ProtocolsNext]_protocolVars => HeldInv'
<1> SUFFICES ASSUME HeldInv, [ProtocolsNext]_protocolVars PROVE HeldInv'
  OBVIOUS
<1>1. CASE UNCHANGED toolVars
  BY <1>1 DEF toolVars, HeldInv
<1>2. CASE \E minor : Told(None, Unjudged, minor)
  BY <1>2 DEF Told, Unjudged, HeldInv
<1>3. CASE \E a, expected, at, minor : /\ a.to \in MoveTargets /\ a.actor \in MoveActors /\ at \in Nat
                                       /\ Told(a, Judged(a, expected, at), minor)
  <2>1. PICK a, expected, at, minor : /\ a.to \in MoveTargets /\ a.actor \in MoveActors /\ at \in Nat
                                      /\ Told(a, Judged(a, expected, at), minor)
    BY <1>3
  <2>2. PICK v : v = Judged(a, expected, at)
    OBVIOUS
  <2>3. CASE v.ok
    <3>1. held' = v.next
      BY <2>1, <2>2, <2>3 DEF Told
    <3>2. /\ v.next \in [Commitments -> HeldCommitment]
          /\ \A c \in Commitments : UnbrokenHistory(v.next[c]) /\ v.next[c].state.type \in StateTypes
      BY <2>1, <2>2, <2>3, AllowedMove
    <3>3. QED
      BY <3>1, <3>2 DEF HeldInv
  <2>4. CASE ~v.ok
    <3>1. held' = held
      BY <2>1, <2>2, <2>4 DEF Told
    <3>2. QED
      BY <3>1 DEF HeldInv
  <2>5. QED
    BY <2>3, <2>4
<1>4. QED
  BY <1>1, <1>2, <1>3, BridgeSteps

\* Whatever protocols and tools move them, commitments keep one unbroken history each, and
\* no move is made in a world with a violation unless it makes a world without: what the
\* host keeps of guard_action's and guard_protocol_action's verdicts.
THEOREM BridgedMovesAreAudited == ProtocolsSpec => []MovesAreAudited
<1> DEFINE Audited == held = FirstHeld \/ Violations(held, deliveries) = {}
<1>1. ProtocolsInit => Audited
  BY DEF ProtocolsInit
<1>2. HeldInv /\ Audited /\ [ProtocolsNext]_protocolVars => Audited'
  <2> SUFFICES ASSUME HeldInv, Audited, [ProtocolsNext]_protocolVars PROVE Audited'
    OBVIOUS
  <2>1. CASE UNCHANGED toolVars
    BY <2>1 DEF toolVars, FirstHeld
  <2>2. CASE \E minor : Told(None, Unjudged, minor)
    <3>1. held' = held /\ deliveries' = deliveries
      BY <2>2 DEF Told, Unjudged
    <3>2. QED
      BY <3>1 DEF FirstHeld
  <2>3. CASE \E a, expected, at, minor : /\ a.to \in MoveTargets /\ a.actor \in MoveActors /\ at \in Nat
                                         /\ Told(a, Judged(a, expected, at), minor)
    <3>1. PICK a, expected, at, minor : /\ a.to \in MoveTargets /\ a.actor \in MoveActors /\ at \in Nat
                                        /\ Told(a, Judged(a, expected, at), minor)
      BY <2>3
    <3>2. PICK v : v = Judged(a, expected, at)
      OBVIOUS
    <3>3. deliveries' = deliveries /\ (v.ok => held' = v.next) /\ (~v.ok => held' = held)
      BY <3>1, <3>2 DEF Told
    <3>4. v.ok => Violations(v.next, deliveries) = {}
      BY <3>1, <3>2, AllowedMove
    <3>5. QED
      BY <3>3, <3>4 DEF FirstHeld
  <2>4. QED
    BY <2>1, <2>2, <2>3, BridgeSteps
<1>3. HeldInv /\ Audited => MovesAreAudited
  BY DEF HeldInv, MovesAreAudited
<1>4. QED
  BY <1>1, <1>2, <1>3, BridgeStart, BridgeKeeps, PTL DEF ProtocolsSpec

\* The advice of a rejection is right: it offers exactly the moves that are legal where the
\* commitment still is, and marks as needing other data exactly the one that was refused for
\* its data: buildAlternatives and the branch of guardAction that marks one.
THEOREM BridgedAdviceIsRight == ProtocolsSpec => []AdviceIsRight
<1>1. ProtocolsInit => AdviceIsRight
  BY DEF ProtocolsInit, AdviceIsRight, Unjudged
<1>2. HeldInv /\ AdviceIsRight /\ [ProtocolsNext]_protocolVars => AdviceIsRight'
  <2> SUFFICES ASSUME HeldInv, AdviceIsRight, [ProtocolsNext]_protocolVars PROVE AdviceIsRight'
    OBVIOUS
  <2>1. CASE UNCHANGED toolVars
    BY <2>1 DEF toolVars, AdviceIsRight
  <2>2. CASE \E minor : Told(None, Unjudged, minor)
    <3>1. verdict'.alternatives = None
      BY <2>2 DEF Told, Unjudged
    <3>2. QED
      BY <3>1 DEF AdviceIsRight
  <2>3. CASE \E a, expected, at, minor : /\ a.to \in MoveTargets /\ a.actor \in MoveActors /\ at \in Nat
                                         /\ Told(a, Judged(a, expected, at), minor)
    <3>1. PICK a, expected, at, minor : /\ a.to \in MoveTargets /\ a.actor \in MoveActors /\ at \in Nat
                                        /\ Told(a, Judged(a, expected, at), minor)
      BY <2>3
    <3>2. PICK v : v = Judged(a, expected, at)
      OBVIOUS
    <3>3. CASE v.ok
      BY <3>1, <3>2, <3>3 DEF Told, AdviceIsRight
    <3>4. CASE v.alternatives = None
      BY <3>1, <3>2, <3>4 DEF Told, AdviceIsRight
    <3>5. CASE ~v.ok /\ v.alternatives # None
      <4> DEFINE k == a.commitment
                 legal == CommitmentTransitions[held[k].state.type]
                 marked == {t \in legal : v.alternatives[t]}
                 named == Violations(held, deliveries) = {} /\ (\E n \in v.violations : n.of # None)
      <4>1. held' = held /\ deliveries' = deliveries /\ verdict' = v /\ asked' = a
        BY <3>1, <3>2, <3>5 DEF Told
      <4>2. /\ k \in Commitments
            /\ \/ /\ a.to.type \notin legal
                  /\ v.alternatives = [t \in legal |-> t = None]
               \/ /\ v.violations = Violations(MoveIn(held, a, at), deliveries)
                  /\ v.alternatives = [t \in legal |-> t = Bounded(a, v.violations)]
        <5>1. PICK u : u = GuardAction(held, deliveries, a, expected, at)
          OBVIOUS
        <5>2. ~u.ok /\ u.alternatives # None /\ u = v
          BY <3>2, <3>5, <5>1 DEF Judged
        <5>3. k \in DOMAIN held /\ RefusedWithAdvice(held, deliveries, a, at, v)
          BY <5>1, <5>2, GuardDecides
        <5>4. QED
          BY <5>3 DEF RefusedWithAdvice, HeldInv
      <4>3. legal \subseteq StateTypes /\ None \notin legal
        BY <4>2, LegalTypes, BridgeAssumption DEF HeldInv
      <4>4. named => marked = legal \cap {a.to.type}
        <5>1. CASE a.to.type \notin legal /\ v.alternatives = [t \in legal |-> t = None]
          BY <5>1, <4>3
        <5>2. CASE /\ v.violations = Violations(MoveIn(held, a, at), deliveries)
                   /\ v.alternatives = [t \in legal |-> t = Bounded(a, v.violations)]
          <6> SUFFICES ASSUME named PROVE marked = legal \cap {a.to.type}
            OBVIOUS
          <6>1. PICK n \in v.violations : n.of # None
            OBVIOUS
          <6>2. PICK d \in HeldCommitment : MoveIn(held, a, at) = [held EXCEPT ![k] = d]
            BY <3>1, <4>2, HeldType DEF MoveIn, HeldInv
          <6>3. n.of = k
            <7>1. k \in DOMAIN held /\ \A x \in DOMAIN held : held[x] \in HeldCommitment
              BY <4>2 DEF HeldInv
            <7>2. n \in Violations([held EXCEPT ![k] = d], deliveries)
              BY <5>2, <6>1, <6>2
            <7>3. QED
              BY <6>1, <7>1, <7>2, OnlyTheMovedIsCited
          <6>4. Bounded(a, v.violations) = a.to.type
            BY <6>1, <6>3 DEF Bounded
          <6>5. v.alternatives = [t \in legal |-> t = a.to.type]
            BY <5>2, <6>4
          <6>6. QED
            BY <6>5
        <5>3. QED
          BY <4>2, <5>1, <5>2
      <4>5. DOMAIN v.alternatives = legal
        BY <4>2
      <4> HIDE DEF legal
      <4>6. QED
        BY <4>1, <4>4, <4>5 DEF AdviceIsRight, legal
    <3>6. QED
      BY <3>3, <3>4, <3>5
  <2>4. QED
    BY <2>1, <2>2, <2>3, BridgeSteps
<1>3. QED
  BY <1>1, <1>2, BridgeStart, BridgeKeeps, PTL DEF ProtocolsSpec

StatedInv ==
  /\ stated \in [Commitments -> Int \cup {None}]
  /\ \A c \in Commitments :
       stated[c] # None => /\ SaysRefund(stated[c], held[c].state)
                           /\ ~ExceedsCommitted(c, held[c].state.amount.amount, held[c].state.amount.currency)

LEMMA StatedKeeps == HeldInv /\ StatedInv /\ [ProtocolsNext]_protocolVars => StatedInv'
<1> SUFFICES ASSUME HeldInv, StatedInv, [ProtocolsNext]_protocolVars PROVE StatedInv'
  OBVIOUS
<1>1. CASE UNCHANGED toolVars
  BY <1>1 DEF toolVars, StatedInv
<1>2. CASE \E minor : Told(None, Unjudged, minor)
  BY <1>2 DEF Told, Unjudged, StatedInv
<1>3. CASE \E a, expected, at, minor : /\ a.to \in MoveTargets /\ a.actor \in MoveActors /\ at \in Nat
                                       /\ minor # None => SaysRefund(minor, a.to)
                                       /\ Told(a, Judged(a, expected, at), minor)
  <2>1. PICK a, expected, at, minor : /\ a.to \in MoveTargets /\ a.actor \in MoveActors /\ at \in Nat
                                      /\ minor # None => SaysRefund(minor, a.to)
                                      /\ Told(a, Judged(a, expected, at), minor)
    BY <1>3
  <2>2. PICK v : v = Judged(a, expected, at)
    OBVIOUS
  <2>3. CASE v.ok
    <3> DEFINE k == a.commitment
               d == Transitioned(held[k], a.to, a.actor, at)
    <3>1. held' = v.next /\ stated' = [stated EXCEPT ![k] = minor]
      BY <2>1, <2>2, <2>3 DEF Told
    <3>2. k \in Commitments /\ v.next = [held EXCEPT ![k] = d] /\ d.state = a.to
      <4>1. k \in Commitments /\ v.next = MoveIn(held, a, at)
        BY <2>2, <2>3, GuardDecides DEF Judged, HeldInv
      <4>2. QED
        BY <4>1 DEF MoveIn, Transitioned
    <3>3. CheckI1(v.next)
      <4>1. v.next \in [Commitments -> HeldCommitment] /\ Violations(v.next, deliveries) = {}
        BY <2>1, <2>2, <2>3, AllowedMove
      <4>2. AuditClean(v.next, deliveries)
        BY <4>1, AuditsAgree
      <4>3. QED
        BY <4>2 DEF AuditClean
    <3> HIDE DEF d
    <3>4. minor \in Int \cup {None}
      BY <2>1 DEF SaysRefund
    <3>5. ASSUME NEW c \in Commitments, stated'[c] # None
          PROVE  /\ SaysRefund(stated'[c], held'[c].state)
                 /\ ~ExceedsCommitted(c, held'[c].state.amount.amount, held'[c].state.amount.currency)
      <4>1. CASE c = k
        <5>1. stated'[c] = minor /\ held'[c] = d /\ v.next[c] = d
          BY <4>1, <3>1, <3>2 DEF HeldInv, StatedInv
        <5>2. SaysRefund(minor, d.state)
          BY <2>1, <3>2, <3>5, <5>1
        <5>3. ~ExceedsCommitted(c, d.state.amount.amount, d.state.amount.currency)
          BY <3>2, <3>3, <5>1, <5>2 DEF CheckI1, SaysRefund, HeldInv
        <5>4. QED
          BY <5>1, <5>2, <5>3
      <4>2. CASE c # k
        BY <4>2, <3>1, <3>2, <3>5 DEF HeldInv, StatedInv
      <4>3. QED
        BY <4>1, <4>2
    <3>6. QED
      BY <3>1, <3>4, <3>5 DEF StatedInv
  <2>4. CASE ~v.ok
    <3>1. held' = held /\ stated' = stated
      BY <2>1, <2>2, <2>4 DEF Told
    <3>2. QED
      BY <3>1 DEF StatedInv
  <2>5. QED
    BY <2>3, <2>4
<1>4. QED
  BY <1>1, <1>2, <1>3, BridgeSteps

\* What a commitment holds as refunded through a protocol is what the payload stated in minor
\* units, and in the committed currency not half a minor unit more than was committed:
\* moneyFromMinor and the guard after it.
THEOREM BridgedRefundsAsStated == ProtocolsSpec => []RefundsAsStated
<1>1. ProtocolsInit => StatedInv
  BY DEF ProtocolsInit, StatedInv
<1>2. StatedInv => RefundsAsStated
  <2> SUFFICES ASSUME StatedInv, NEW c \in Commitments, stated[c] # None
               PROVE  LET refund == held[c].state.amount
                      IN /\ held[c].state.type = "Refunded"
                         /\ refund.amount = stated[c] * 2 * Eps
                         /\ Committed[c] # NoMoney /\ Committed[c].currency = refund.currency =>
                              stated[c] * 2 * Eps < Committed[c].amount + Eps
    BY DEF RefundsAsStated
  <2> DEFINE refund == held[c].state.amount
  <2>1. /\ held[c].state.type = "Refunded" /\ stated[c] \in Int
        /\ refund.amount = stated[c] * 2 * Eps
        /\ ~ExceedsCommitted(c, refund.amount, refund.currency)
    BY DEF StatedInv, SaysRefund
  <2>2. PICK total : total = stated[c] * 2 * Eps
    OBVIOUS
  <2>3. total \in Int /\ Eps \in Nat \ {0}
    BY <2>1, <2>2, MoneyAssumption
  <2>4. Committed[c] # NoMoney => Committed[c].amount \in Nat
    BY MoneyAssumption DEF Money
  <2>5. Committed[c] # NoMoney /\ Committed[c].currency = refund.currency => total < Committed[c].amount + Eps
    BY <2>1, <2>2, <2>3, <2>4 DEF ExceedsCommitted, MoneyEquals
  <2>6. QED
    BY <2>1, <2>2, <2>5
<1>3. QED
  BY <1>1, <1>2, StatedKeeps, BridgeStart, BridgeKeeps, PTL DEF ProtocolsSpec

\* A call of the bridge moves the world soundly or tells the agent rightly why it did not.
THEOREM BridgeMovesSoundly == ProtocolsSpec => []ProtocolsMoveSoundly
BY BridgedMovesAreAudited, BridgedRefundsAsStated, BridgedAdviceIsRight, PTL DEF ProtocolsMoveSoundly

-----------------------------------------------------------------------------
(* The metrics wrapper counts a citation by size of a set, so that the violations of a     *)
(* verdict are finite comes first.                                                         *)

\* The image of a finite set is finite.
LEMMA ImageIsFinite ==
  ASSUME NEW S, IsFiniteSet(S), NEW f
  PROVE  IsFiniteSet({f[x] : x \in S})
<1> DEFINE T == {f[x] : x \in S}
           g == [x \in S |-> f[x]]
<1>1. g \in Surjection(S, T)
  BY DEF Surjection
<1>2. QED
  BY <1>1, FS_Surjection

\* A world of finitely many commitments and fulfillments has finitely many violations.
LEMMA FinitelyManyViolations ==
  ASSUME NEW w, IsFiniteSet(DOMAIN w), NEW f, IsFiniteSet(DOMAIN f),
         \A c \in DOMAIN w : Len(w[c].history) \in Nat /\ DOMAIN w[c].history = 1..Len(w[c].history)
  PROVE  IsFiniteSet(Violations(w, f))
<1>1. \A X \in SUBSET DOMAIN w : IsFiniteSet(X)
  BY FS_Subset
<1>2. \A Y \in SUBSET DOMAIN f : IsFiniteSet(Y)
  BY FS_Subset
<1>3. ASSUME NEW X \in SUBSET DOMAIN w, NEW r
      PROVE  IsFiniteSet({Violation(r, c, 0) : c \in X})
  <2> DEFINE line == [c \in X |-> Violation(r, c, 0)]
  <2>0. IsFiniteSet(X)
    BY <1>1
  <2> HIDE DEF line
  <2>1. IsFiniteSet({line[c] : c \in X})
    BY <2>0, ImageIsFinite, Zenon
  <2> USE DEF line
  <2>2. {line[c] : c \in X} = {Violation(r, c, 0) : c \in X}
    OBVIOUS
  <2>3. QED
    BY <2>1, <2>2
<1>4. ASSUME NEW Y \in SUBSET DOMAIN f
      PROVE  IsFiniteSet({Violation("I-4", IF WasAccepted(w[f[x].commitment]) THEN None ELSE f[x].commitment, x) : x \in Y})
  <2> DEFINE line == [x \in Y |-> Violation("I-4", IF WasAccepted(w[f[x].commitment]) THEN None ELSE f[x].commitment, x)]
  <2>1. IsFiniteSet({line[x] : x \in Y})
    BY <1>2, ImageIsFinite
  <2>2. {line[x] : x \in Y} = {Violation("I-4", IF WasAccepted(w[f[x].commitment]) THEN None ELSE f[x].commitment, x) : x \in Y}
    OBVIOUS
  <2>3. QED
    BY <2>1, <2>2
<1>5. ASSUME NEW c \in DOMAIN w
      PROVE  IsFiniteSet(HistoryViolations(c, w[c].history))
  <2> DEFINE h == w[c].history
             X == {j \in DOMAIN h : ~IsValidCommitmentTransition(h[j].from, h[j].to)}
             Y == {j \in 2..Len(h) : h[j].at < h[j - 1].at}
             wrong == [i \in X |-> Violation("I-2", c, i)]
             early == [i \in Y |-> Violation("I-2", c, -i)]
  <2>1. IsFiniteSet(DOMAIN h) /\ X \in SUBSET DOMAIN h /\ Y \in SUBSET DOMAIN h
    BY FiniteIntervals
  <2>2. IsFiniteSet(X) /\ IsFiniteSet(Y)
    BY <2>1, FS_Subset
  <2>3. IsFiniteSet({wrong[i] : i \in X}) /\ IsFiniteSet({early[i] : i \in Y})
    BY <2>2, ImageIsFinite
  <2>4. {wrong[i] : i \in X} = {Violation("I-2", c, i) : i \in X}
    OBVIOUS
  <2>5. {early[i] : i \in Y} = {Violation("I-2", c, -i) : i \in Y}
    OBVIOUS
  <2>6. HistoryViolations(c, h) = {wrong[i] : i \in X} \cup {early[i] : i \in Y}
    BY <2>4, <2>5 DEF HistoryViolations
  <2> HIDE DEF h, X, Y, wrong, early
  <2>7. IsFiniteSet({wrong[i] : i \in X} \cup {early[i] : i \in Y})
    BY <2>3, FS_Union
  <2>8. IsFiniteSet(HistoryViolations(c, h))
    BY <2>6, <2>7
  <2>9. QED
    BY <2>8 DEF h
<1>6. IsFiniteSet(UNION {HistoryViolations(c, w[c].history) : c \in DOMAIN w})
  <2> DEFINE told == [c \in DOMAIN w |-> HistoryViolations(c, w[c].history)]
             all == {told[c] : c \in DOMAIN w}
  <2>1. IsFiniteSet(all)
    BY ImageIsFinite
  <2>2. \A T \in all : IsFiniteSet(T)
    BY <1>5
  <2>3. IsFiniteSet(UNION all)
    BY <2>1, <2>2, FS_UNION
  <2>4. all = {HistoryViolations(c, w[c].history) : c \in DOMAIN w}
    OBVIOUS
  <2>5. QED
    BY <2>3, <2>4
<1> DEFINE I1 == {Violation("I-1", c, 0) : c \in {x \in DOMAIN w : ~CheckI1([y \in {x} |-> w[y]])}}
           I2 == UNION {HistoryViolations(c, w[c].history) : c \in DOMAIN w}
           I3 == {Violation("I-3", c, 0) : c \in {x \in DOMAIN w : ~CheckI3(x, w[x])}}
           I4 == {Violation("I-4", IF WasAccepted(w[f[x].commitment]) THEN None ELSE f[x].commitment, x) :
                    x \in {y \in DOMAIN f : \E c \in DOMAIN w : ~CheckI4(c, w[c], [z \in {y} |-> f[z]])}}
           I6 == {Violation("I-6", c, 0) : c \in {x \in DOMAIN w : ~CheckI6(x)}}
<1>7. IsFiniteSet(I1) /\ IsFiniteSet(I2) /\ IsFiniteSet(I3) /\ IsFiniteSet(I4) /\ IsFiniteSet(I6)
  BY <1>3, <1>4, <1>6
<1>8. Violations(w, f) = I1 \cup I2 \cup I3 \cup I4 \cup I6
  BY DEF Violations
<1> HIDE DEF I1, I2, I3, I4, I6
<1>9. IsFiniteSet(I1 \cup I2) /\ IsFiniteSet(I3 \cup I4)
  BY <1>7, FS_Union
<1>10. IsFiniteSet((I1 \cup I2) \cup (I3 \cup I4))
  BY <1>9, FS_Union
<1>11. IsFiniteSet(((I1 \cup I2) \cup (I3 \cup I4)) \cup I6)
  BY <1>7, <1>10, FS_Union
<1>12. QED
  BY <1>8, <1>11

\* A rejection of the held world lists finitely many violations.
LEMMA RejectionsAreFinite ==
  ASSUME HeldInv, IsFiniteSet(DOMAIN deliveries),
         NEW a, a.to \in MoveTargets, a.actor \in MoveActors, NEW expected, NEW at \in Nat,
         NEW v, v = Judged(a, expected, at), ~v.ok
  PROVE  IsFiniteSet(v.violations)
<1> DEFINE k == a.commitment
           w == MoveIn(held, a, at)
<1>1. \A x : IsFiniteSet({x})
  BY FS_Singleton
<1>2. CASE \E r, offered : v = TurnedDown(r, a, offered)
  <2>1. PICK r, offered : v = TurnedDown(r, a, offered)
    BY <1>2
  <2>2. v.violations = {Violation(r, k, 0)}
    BY <2>1 DEF TurnedDown, Blocked
  <2>3. QED
    BY <1>1, <2>2
<1>3. CASE k \in Commitments /\ \E offered : v = Blocked(Violations(w, deliveries), offered)
  <2>1. held[k] \in HeldCommitment
    BY <1>3 DEF HeldInv
  <2> DEFINE d == Transitioned(held[k], a.to, a.actor, at)
             entry == [from |-> held[k].state, to |-> a.to, at |-> at, actor |-> a.actor]
  <2>2. entry \in HeldEntry /\ d.history = Append(held[k].history, entry) /\ d.state = a.to
    BY <2>1 DEF HeldEntry, HeldCommitment, Transitioned
  <2>3. d.history \in Seq(HeldEntry)
    BY <2>1, <2>2 DEF HeldCommitment
  <2>4. w = [held EXCEPT ![k] = d]
    BY DEF MoveIn
  <2> HIDE DEF w, d
  <2>5. DOMAIN w = Commitments /\ \A c \in DOMAIN w : w[c].history \in Seq(HeldEntry)
    BY <1>3, <2>3, <2>4 DEF HeldInv, HeldCommitment
  <2>6. \A c \in DOMAIN w : Len(w[c].history) \in Nat /\ DOMAIN w[c].history = 1..Len(w[c].history)
    BY <2>5
  <2>7. IsFiniteSet(DOMAIN w)
    BY <2>5, CommitmentsAssumption
  <2>8. IsFiniteSet(Violations(w, deliveries))
    BY <2>6, <2>7, FinitelyManyViolations
  <2>9. QED
    BY <1>3, <2>8 DEF Blocked
<1>4. DOMAIN held = Commitments
  BY DEF HeldInv
<1>5. (\E r, offered : v = TurnedDown(r, a, offered))
      \/ (k \in Commitments /\ \E offered : v = Blocked(Violations(w, deliveries), offered))
  <2> HIDE DEF w
  <2>1. w = MoveIn(held, a, at)
    BY DEF w
  <2>2. QED
    BY <1>4, <2>1 DEF Judged, GuardAction
<1>6. QED
  BY <1>2, <1>3, <1>5

\* The verdicts that blocked, and one more verdict.
BlocksOf(s) == {i \in DOMAIN s : ~s[i].ok}
ScopedTo(s, k) == Cardinality({i \in BlocksOf(s) : s[i].scope = k})
CitedUnder(s, r) == SumFunctionOnSet([i \in BlocksOf(s) |-> CitationsOf(s[i].violations, r)], BlocksOf(s))

SnapshotOf(s, m) ==
  /\ m.totalBlocks = Cardinality(BlocksOf(s))
  /\ m.totalAllowed = Len(s) - Cardinality(BlocksOf(s))
  /\ \A k \in StateTypes : m.byScope[k] = ScopedTo(s, k)
  /\ \A r \in Rules : m.byRule[r] = CitedUnder(s, r)

IsOneMore(s, t, x) ==
  /\ Len(t) = Len(s) + 1
  /\ \A i \in DOMAIN s : t[i] = s[i]
  /\ t[Len(s) + 1] = x /\ Len(s) + 1 \notin BlocksOf(s)
  /\ BlocksOf(s) \subseteq DOMAIN s /\ DOMAIN t = DOMAIN s \cup {Len(s) + 1}
  /\ x.ok => BlocksOf(t) = BlocksOf(s)
  /\ ~x.ok => BlocksOf(t) = BlocksOf(s) \cup {Len(s) + 1}
  /\ IsFiniteSet(BlocksOf(s))

LEMMA OneMoreVerdict ==
  ASSUME NEW T, NEW s \in Seq(T), NEW x, NEW t, t = Append(s, x)
  PROVE  IsOneMore(s, t, x)
<1> DEFINE n == Len(s) + 1
<1>1. s \in Seq(T \cup {x}) /\ Len(s) \in Nat /\ DOMAIN s = 1..Len(s)
  BY SeqDef
<1>2. t \in Seq(T \cup {x}) /\ Len(t) = n /\ t[n] = x /\ \A i \in 1..Len(s) : t[i] = s[i]
  BY <1>1
<1>3. DOMAIN t = 1..n
  BY <1>1, <1>2
<1>4. DOMAIN t = DOMAIN s \cup {n} /\ n \notin DOMAIN s
  BY <1>1, <1>3
<1>5. /\ x.ok => BlocksOf(t) = BlocksOf(s)
      /\ ~x.ok => BlocksOf(t) = BlocksOf(s) \cup {n}
  BY <1>1, <1>2, <1>4 DEF BlocksOf
<1>6. IsFiniteSet(BlocksOf(s))
  <2>1. IsFiniteSet(1..Len(s))
    BY <1>1, FiniteIntervals
  <2>2. BlocksOf(s) \in SUBSET (1..Len(s))
    BY <1>1 DEF BlocksOf
  <2>3. QED
    BY <2>1, <2>2, FS_Subset
<1>7. QED
  BY <1>1, <1>2, <1>4, <1>5, <1>6 DEF BlocksOf, IsOneMore

Collected == [totalAllowed : Nat, totalBlocks : Nat, byRule : [Rules -> Nat], byScope : [StateTypes -> Nat]]

TallyInv ==
  /\ \E T : judged \in Seq(T)
  /\ \A i \in DOMAIN judged : IsFiniteSet(judged[i].violations)
  /\ counted \in Collected
  /\ IsFiniteSet(DOMAIN deliveries)
  /\ TallyTells

LEMMA TallyStart == NoTally \in Collected /\ (counted = NoTally /\ judged = <<>> => TallyTells)
<1>1. NoTally \in Collected
  BY DEF NoTally, Collected
<1>2. ASSUME counted = NoTally, judged = <<>>
      PROVE  TallyTells
  <2>1. {i \in DOMAIN judged : ~judged[i].ok} = {} /\ Len(judged) = 0
    BY <1>2
  <2>2. Cardinality({}) = 0
    BY FS_EmptySet
  <2>3. \A t : {i \in {} : judged[i].scope = t} = {}
    OBVIOUS
  <2>4. \A r : SumFunctionOnSet([i \in {} |-> CitationsOf(judged[i].violations, r)], {}) = 0
    BY SumEmpty
  <2>5. QED
    BY <1>2, <2>1, <2>2, <2>3, <2>4 DEF TallyTells, NoTally
<1>3. QED
  BY <1>1, <1>2

\* A block is counted under its scope and under every rule it cites.
IsOneMoreBlock(s, t, x) ==
  /\ Cardinality(BlocksOf(t)) = Cardinality(BlocksOf(s)) + 1
  /\ \A k : ScopedTo(t, k) = ScopedTo(s, k) + (IF x.scope = k THEN 1 ELSE 0)
  /\ \A r : CitedUnder(t, r) = CitedUnder(s, r) + CitationsOf(x.violations, r)

LEMMA BlockCounted ==
  ASSUME NEW T, NEW s \in Seq(T), NEW x, ~x.ok,
         \A i \in DOMAIN s : IsFiniteSet(s[i].violations), IsFiniteSet(x.violations),
         NEW t, t = Append(s, x)
  PROVE  IsOneMoreBlock(s, t, x)
<1> DEFINE B == BlocksOf(s)
           n == Len(s) + 1
<1>0. IsOneMore(s, t, x)
  BY OneMoreVerdict, Zenon
<1>1. /\ \A i \in B : t[i] = s[i] /\ i \in DOMAIN s
      /\ t[n] = x /\ n \notin B /\ BlocksOf(t) = B \cup {n} /\ IsFiniteSet(B)
  BY <1>0 DEF IsOneMore
<1> HIDE DEF B, n
<1>2. Cardinality(B \cup {n}) = Cardinality(B) + 1
  BY <1>1, FS_AddElement
<1>3. ASSUME NEW k
      PROVE  Cardinality({i \in B \cup {n} : t[i].scope = k})
             = Cardinality({i \in B : s[i].scope = k}) + (IF x.scope = k THEN 1 ELSE 0)
  <2> DEFINE K == {i \in B : s[i].scope = k}
  <2>1. IsFiniteSet(K) /\ n \notin K
    BY <1>1, FS_Subset
  <2>2. Cardinality(K) \in Nat
    BY <2>1, FS_CardinalityType
  <2>3. /\ x.scope = k => {i \in B \cup {n} : t[i].scope = k} = K \cup {n}
        /\ x.scope # k => {i \in B \cup {n} : t[i].scope = k} = K
    BY <1>1
  <2> HIDE DEF K
  <2>4. Cardinality(K \cup {n}) = Cardinality(K) + 1
    BY <2>1, FS_AddElement
  <2>5. CASE x.scope = k
    BY <2>3, <2>4, <2>5 DEF K
  <2>6. CASE x.scope # k
    <3>1. {i \in B \cup {n} : t[i].scope = k} = K /\ (IF x.scope = k THEN 1 ELSE 0) = 0
      BY <2>3, <2>6
    <3>2. Cardinality(K) + 0 = Cardinality(K)
      BY <2>2
    <3>3. QED
      BY <3>1, <3>2 DEF K
  <2>7. QED
    BY <2>5, <2>6
<1>4. ASSUME NEW r
      PROVE  SumFunctionOnSet([i \in B \cup {n} |-> CitationsOf(t[i].violations, r)], B \cup {n})
             = SumFunctionOnSet([i \in B |-> CitationsOf(s[i].violations, r)], B) + CitationsOf(x.violations, r)
  <2> DEFINE f == [i \in B \cup {n} |-> CitationsOf(t[i].violations, r)]
             g == [i \in B |-> CitationsOf(s[i].violations, r)]
  <2>1. ASSUME NEW V, IsFiniteSet(V)
        PROVE  CitationsOf(V, r) \in Nat
    <3>1. IsFiniteSet({v \in V : v.rule = r})
      BY <2>1, FS_Subset
    <3>2. QED
      BY <3>1, FS_CardinalityType DEF CitationsOf
  <2>2. \A i \in B : f[i] = g[i]
    BY <1>1
  <2>3. f[n] = CitationsOf(x.violations, r)
    BY <1>1
  <2>4. \A i \in B : g[i] \in Nat
    BY <1>1, <2>1
  <2>5. f[n] \in Nat
    BY <2>1, <2>3
  <2> HIDE DEF f, g
  <2>6. \A i \in B \cup {n} : f[i] \in Int
    BY <2>2, <2>4, <2>5
  <2>7. SumFunctionOnSet(f, B \cup {n}) = f[n] + SumFunctionOnSet(f, B)
    BY <1>1, <2>6, SumInsert
  <2>8. SumFunctionOnSet(f, B) = SumFunctionOnSet(g, B)
    BY <1>1, <2>2, SumCongruent
  <2>9. SumFunctionOnSet(g, B) \in Int
    BY <1>1, <2>4, SumType
  <2>10. SumFunctionOnSet(f, B \cup {n}) = SumFunctionOnSet(g, B) + CitationsOf(x.violations, r)
    BY <2>3, <2>5, <2>7, <2>8, <2>9
  <2>11. QED
    BY <2>10 DEF f, g
<1>5. QED
  <2>1. BlocksOf(t) = B \cup {n} /\ BlocksOf(s) = B
    BY <1>1 DEF B
  <2>2. QED
    BY <2>1, <1>2, <1>3, <1>4 DEF ScopedTo, CitedUnder, IsOneMoreBlock

LEMMA AllowanceCounted ==
  ASSUME NEW T, NEW s \in Seq(T), NEW x, x.ok, NEW t, t = Append(s, x)
  PROVE  /\ BlocksOf(t) = BlocksOf(s) /\ Len(t) = Len(s) + 1
         /\ \A k : ScopedTo(t, k) = ScopedTo(s, k)
         /\ \A r : CitedUnder(t, r) = CitedUnder(s, r)
<1>0. IsOneMore(s, t, x)
  BY OneMoreVerdict, Zenon
<1>1. /\ \A i \in BlocksOf(s) : t[i] = s[i]
      /\ BlocksOf(t) = BlocksOf(s) /\ Len(t) = Len(s) + 1
  BY <1>0 DEF IsOneMore
<1>2. ASSUME NEW k
      PROVE  ScopedTo(t, k) = ScopedTo(s, k)
  <2>1. {i \in BlocksOf(t) : t[i].scope = k} = {i \in BlocksOf(s) : s[i].scope = k}
    BY <1>1
  <2>2. QED
    BY <2>1 DEF ScopedTo
<1>3. ASSUME NEW r
      PROVE  CitedUnder(t, r) = CitedUnder(s, r)
  <2>1. [i \in BlocksOf(t) |-> CitationsOf(t[i].violations, r)]
        = [i \in BlocksOf(s) |-> CitationsOf(s[i].violations, r)]
    BY <1>1
  <2>2. QED
    BY <1>1, <2>1 DEF CitedUnder
<1>4. QED
  BY <1>1, <1>2, <1>3

\* What a verdict adds to the collector is what it adds to the verdicts it was shown.
LEMMA TallyKeeps ==
  ASSUME HeldInv, TallyInv, MeteredGuard
  PROVE  TallyInv'
<1>1. PICK a \in Proposals : \E expected \in PlannedAgainst(a), at \in BridgeClocks :
        LET v == Judged(a, expected, at)
        IN /\ Told(a, v, None)
           /\ counted' = IF v.ok THEN RecordAllowed(counted) ELSE RecordBlock(counted, v.violations, a.to.type)
           /\ judged' = Append(judged, [ok |-> v.ok, scope |-> a.to.type,
                                        violations |-> IF v.ok THEN {} ELSE v.violations])
  BY DEF MeteredGuard
<1>21. PICK expected \in PlannedAgainst(a), at \in BridgeClocks :
         LET v == Judged(a, expected, at)
         IN /\ Told(a, v, None)
            /\ counted' = IF v.ok THEN RecordAllowed(counted) ELSE RecordBlock(counted, v.violations, a.to.type)
            /\ judged' = Append(judged, [ok |-> v.ok, scope |-> a.to.type,
                                         violations |-> IF v.ok THEN {} ELSE v.violations])
  BY <1>1
<1>22. PICK v : v = Judged(a, expected, at)
  OBVIOUS
<1>2. /\ v = Judged(a, expected, at)
      /\ Told(a, v, None)
      /\ counted' = IF v.ok THEN RecordAllowed(counted) ELSE RecordBlock(counted, v.violations, a.to.type)
      /\ judged' = Append(judged, [ok |-> v.ok, scope |-> a.to.type,
                                   violations |-> IF v.ok THEN {} ELSE v.violations])
  BY <1>21, <1>22
<1>3. /\ a.to \in MoveTargets /\ a.actor \in MoveActors /\ at \in Nat
      /\ a.to.type \in StateTypes
  BY BridgeAssumption DEF Actions, MoveTargets, MoveActors, States
<1>4. v.ok \in BOOLEAN
  BY <1>2, GuardDecides DEF Judged
<1>5. ~v.ok => IsFiniteSet(v.violations)
  BY <1>2, <1>3, RejectionsAreFinite DEF TallyInv
<1> DEFINE cited == IF v.ok THEN {} ELSE v.violations
           x == [ok |-> v.ok, scope |-> a.to.type, violations |-> cited]
<1>6. IsFiniteSet(cited)
  BY <1>5, FS_EmptySet
<1>7. x.ok = v.ok /\ x.scope = a.to.type /\ x.violations = cited /\ judged' = Append(judged, x)
  BY <1>2
<1> HIDE DEF x, cited
<1>8. PICK T : judged \in Seq(T)
  BY DEF TallyInv
<1>9. PICK t : t = judged'
  OBVIOUS
<1>10. IsOneMore(judged, t, x)
  BY <1>7, <1>8, <1>9, OneMoreVerdict, Zenon
<1>11. \E U : t \in Seq(U)
  <2>1. judged \in Seq(T \cup {x})
    BY <1>8
  <2>2. t \in Seq(T \cup {x})
    BY <2>1, <1>7, <1>9
  <2>3. QED
    BY <2>2
<1>12. \A i \in DOMAIN t : IsFiniteSet(t[i].violations)
  BY <1>6, <1>7, <1>10 DEF IsOneMore, TallyInv
<1>13. IsFiniteSet(DOMAIN deliveries')
  BY <1>2 DEF Told, TallyInv
<1>14. Len(judged) \in Nat /\ IsFiniteSet(BlocksOf(judged)) /\ Cardinality(BlocksOf(judged)) \in Nat
  BY <1>8, <1>10, FS_CardinalityType DEF IsOneMore
<1>15. SnapshotOf(judged, counted)
  BY DEF TallyInv, TallyTells, SnapshotOf, ScopedTo, CitedUnder, BlocksOf
<1>16. PICK m : m = counted'
  OBVIOUS
<1>17. m \in Collected /\ SnapshotOf(t, m)
  <2>0. counted \in Collected
    BY DEF TallyInv
  <2>1. CASE v.ok
    <3>1. m = [counted EXCEPT !.totalAllowed = @ + 1]
      BY <1>2, <1>16, <2>1 DEF RecordAllowed
    <3>2. m \in Collected /\ m.totalAllowed = counted.totalAllowed + 1 /\ m.totalBlocks = counted.totalBlocks
          /\ m.byScope = counted.byScope /\ m.byRule = counted.byRule
      BY <2>0, <3>1 DEF Collected
    <3>3. /\ BlocksOf(t) = BlocksOf(judged) /\ Len(t) = Len(judged) + 1
          /\ \A k : ScopedTo(t, k) = ScopedTo(judged, k)
          /\ \A r : CitedUnder(t, r) = CitedUnder(judged, r)
      <4>1. x.ok /\ t = Append(judged, x)
        BY <1>7, <1>9, <2>1
      <4>2. QED
        BY <1>8, <4>1, AllowanceCounted, ZenonT(30)
    <3>4. SnapshotOf(t, m)
      BY <1>14, <1>15, <3>2, <3>3 DEF SnapshotOf
    <3>5. QED
      BY <3>2, <3>4
  <2>2. CASE ~v.ok
    <3>1. m = RecordBlock(counted, cited, x.scope) /\ x.scope \in StateTypes
      BY <1>2, <1>3, <1>7, <1>16, <2>2 DEF cited
    <3>2. \A r : CitationsOf(cited, r) \in Nat
      <4>1. \A r : IsFiniteSet({w \in cited : w.rule = r})
        BY <1>6, FS_Subset
      <4>2. QED
        BY <4>1, FS_CardinalityType DEF CitationsOf
    <3>3. /\ m.totalBlocks = counted.totalBlocks + 1 /\ m.totalAllowed = counted.totalAllowed
          /\ m.byRule = [r \in Rules |-> counted.byRule[r] + CitationsOf(cited, r)]
          /\ m.byScope = [counted.byScope EXCEPT ![x.scope] = @ + 1]
          /\ m = [totalAllowed |-> m.totalAllowed, totalBlocks |-> m.totalBlocks,
                  byRule |-> m.byRule, byScope |-> m.byScope]
      BY <2>0, <3>1 DEF RecordBlock, Collected
    <3>4. m \in Collected
      BY <2>0, <3>1, <3>2, <3>3 DEF Collected
    <3>5. /\ Cardinality(BlocksOf(t)) = Cardinality(BlocksOf(judged)) + 1
          /\ \A k : ScopedTo(t, k) = ScopedTo(judged, k) + (IF x.scope = k THEN 1 ELSE 0)
          /\ \A r : CitedUnder(t, r) = CitedUnder(judged, r) + CitationsOf(cited, r)
      <4>1. ~x.ok /\ t = Append(judged, x) /\ IsFiniteSet(x.violations)
        BY <1>6, <1>7, <1>9, <2>2
      <4>2. \A i \in DOMAIN judged : IsFiniteSet(judged[i].violations)
        BY DEF TallyInv
      <4>3. IsOneMoreBlock(judged, t, x)
        BY <1>8, <4>1, <4>2, BlockCounted, Zenon
      <4>4. QED
        BY <1>7, <4>3 DEF IsOneMoreBlock
    <3>6. ASSUME NEW k \in StateTypes
          PROVE  m.byScope[k] = ScopedTo(t, k)
      <4>1. counted.byScope \in [StateTypes -> Nat]
        BY <2>0 DEF Collected
      <4>2. m.byScope[k] = counted.byScope[k] + (IF x.scope = k THEN 1 ELSE 0)
        BY <3>3, <4>1
      <4>3. QED
        BY <1>15, <3>5, <4>2 DEF SnapshotOf
    <3>7. ASSUME NEW r \in Rules
          PROVE  m.byRule[r] = CitedUnder(t, r)
      <4>1. m.byRule[r] = counted.byRule[r] + CitationsOf(cited, r)
        BY <3>3
      <4>2. QED
        BY <1>15, <3>5, <4>1 DEF SnapshotOf
    <3>8. /\ m.totalBlocks = Cardinality(BlocksOf(t))
          /\ m.totalAllowed = Len(t) - Cardinality(BlocksOf(t))
      <4>1. Len(t) = Len(judged) + 1
        BY <1>10 DEF IsOneMore
      <4>2. QED
        BY <1>14, <1>15, <3>3, <3>5, <4>1 DEF SnapshotOf
    <3>9. QED
      BY <3>4, <3>6, <3>7, <3>8 DEF SnapshotOf
  <2>3. QED
    BY <1>4, <2>1, <2>2
<1>18. TallyTells'
  BY <1>9, <1>16, <1>17 DEF TallyTells, SnapshotOf, ScopedTo, CitedUnder, BlocksOf
<1>19. QED
  BY <1>9, <1>11, <1>12, <1>13, <1>16, <1>17, <1>18 DEF TallyInv

\* The snapshot of the metrics collector tells the verdicts it was shown since it was last
\* reset: every one once, every block under one scope and under each rule as often as the
\* verdict cites it: recordAllowed, recordBlock, reset and the wrapper of guardAction.
THEOREM CollectorTellsVerdicts == ProtocolsSpec => []TallyTells
<1>1. ProtocolsInit => TallyInv
  <2> SUFFICES ASSUME ProtocolsInit PROVE TallyInv
    OBVIOUS
  <2>1. judged = <<>> /\ counted = NoTally /\ IsFiniteSet(DOMAIN deliveries)
    BY BridgeAssumption DEF ProtocolsInit
  <2>2. <<>> \in Seq({}) /\ DOMAIN <<>> = {}
    OBVIOUS
  <2>3. QED
    BY <2>1, <2>2, TallyStart DEF TallyInv
<1>2. HeldInv /\ TallyInv /\ [ProtocolsNext]_protocolVars => TallyInv'
  <2> SUFFICES ASSUME HeldInv, TallyInv, [ProtocolsNext]_protocolVars PROVE TallyInv'
    OBVIOUS
  <2>1. CASE MeteredGuard
    BY <2>1, TallyKeeps
  <2>2. CASE UNCHANGED metricVars /\ deliveries' = deliveries
    BY <2>2 DEF metricVars, TallyInv, TallyTells
  <2>3. CASE ResetMetrics
    <3>1. judged' = <<>> /\ counted' = NoTally /\ deliveries' = deliveries
      BY <2>3 DEF ResetMetrics, toolVars
    <3>2. (counted' = NoTally /\ judged' = <<>>) => TallyTells'
      <4>1. (counted = NoTally /\ judged = <<>> => TallyTells)'
        BY TallyStart, PTL
      <4>2. QED
        BY <4>1
    <3>3. <<>> \in Seq({}) /\ DOMAIN <<>> = {} /\ NoTally \in Collected
      BY TallyStart
    <3>4. QED
      BY <3>1, <3>2, <3>3 DEF TallyInv
  <2>4. QED
    BY <2>1, <2>2, <2>3 DEF ProtocolsNext, protocolVars, toolVars, metricVars,
         GuardActionTool, GuardProtocolActionTool, Told
<1>3. TallyInv => TallyTells
  BY DEF TallyInv
<1>4. QED
  BY <1>1, <1>2, <1>3, BridgeStart, BridgeKeeps, PTL DEF ProtocolsSpec

-----------------------------------------------------------------------------
(* The coverage gate.  That a sink is covered says something about runs because the guard's *)
(* statement stands before the sink's in one list: then the guard stands before the sink,   *)
(* and where no guard is buried in a branch every run that reaches the sink has passed it.  *)

\* The lines around a line that is around another one are around that one too, and of two
\* lines around one the earlier is around the later.
LEMMA AboveNests ==
  ASSUME NEW p \in Seq(OutlineLine), NEW i \in DOMAIN p, NEW j \in Above(p, i), NEW k \in Int
  PROVE  /\ j \in DOMAIN p /\ j < i
         /\ k \in Above(p, j) => k \in Above(p, i) /\ k < j
         /\ k \in Above(p, i) /\ k < j => k \in Above(p, j)
<1>1. /\ Len(p) \in Nat /\ DOMAIN p = 1..Len(p) /\ \A m \in 1..Len(p) : p[m].depth \in Nat
  <2>1. \A m \in 1..Len(p) : p[m] \in OutlineLine
    OBVIOUS
  <2>2. QED
    BY <2>1 DEF OutlineLine
<1>2. j \in 1..(i - 1) /\ \A m \in (j + 1)..i : p[j].depth < p[m].depth
  BY DEF Above
<1>3. j \in DOMAIN p /\ j < i
  BY <1>1, <1>2
<1>4. ASSUME k \in Above(p, j)
      PROVE  k \in Above(p, i) /\ k < j
  <2>1. k \in 1..(j - 1) /\ \A m \in (k + 1)..j : p[k].depth < p[m].depth
    BY <1>4 DEF Above
  <2>2. ASSUME NEW m \in (k + 1)..i
        PROVE  p[k].depth < p[m].depth
    <3>1. CASE m <= j
      BY <1>3, <1>1, <2>1, <2>2, <3>1
    <3>2. CASE j < m
      <4>1. p[k].depth < p[j].depth /\ p[j].depth < p[m].depth
        BY <1>1, <1>2, <1>3, <2>1, <2>2, <3>2
      <4>2. p[k].depth \in Nat /\ p[j].depth \in Nat /\ p[m].depth \in Nat
        BY <1>1, <1>3, <2>1, <2>2
      <4>3. QED
        BY <4>1, <4>2
    <3>3. QED
      BY <1>1, <1>3, <2>2, <3>1, <3>2
  <2>3. k \in 1..(i - 1)
    BY <1>1, <1>3, <2>1
  <2>4. QED
    BY <2>1, <2>2, <2>3, <1>1, <1>3 DEF Above
<1>5. ASSUME k \in Above(p, i), k < j
      PROVE  k \in Above(p, j)
  <2>1. k \in 1..(i - 1) /\ \A m \in (k + 1)..i : p[k].depth < p[m].depth
    BY <1>5 DEF Above
  <2>2. k \in 1..(j - 1) /\ \A m \in (k + 1)..j : m \in (k + 1)..i
    BY <1>1, <1>3, <1>5, <2>1
  <2>3. QED
    BY <2>1, <2>2 DEF Above
<1>6. QED
  BY <1>3, <1>4, <1>5

\* The greatest of a set that is bounded by its member is Max.
LEMMA GreatestIsMax ==
  ASSUME NEW X \in SUBSET Int, NEW b \in X, \A k \in X : k <= b
  PROVE  Max(X) = b
<1>1. \A y \in X : b >= y
  OBVIOUS
<1>2. PICK m : m = Max(X)
  OBVIOUS
<1>3. m \in X /\ \A y \in X : m >= y
  BY <1>1, <1>2 DEF Max
<1>4. QED
  BY <1>1, <1>2, <1>3

LEMMA MaxIsGreatest ==
  ASSUME NEW n \in Nat, NEW X \in SUBSET (0..n), X # {}
  PROVE  Max(X) \in X /\ \A k \in X : k <= Max(X)
<1> DEFINE below == {n - k : k \in X}
<1>1. below \in SUBSET Nat /\ below # {}
  <2>1. \A k \in X : n - k \in Nat
    OBVIOUS
  <2>2. below \in SUBSET Nat
    BY <2>1
  <2>3. below # {}
    OBVIOUS
  <2>4. QED
    BY <2>2, <2>3
<1>2. PICK l \in below : \A k \in below : l <= k
  BY <1>1, LeastNatural
<1>3. PICK b \in X : l = n - b
  BY <1>2
<1>4. \A k \in X : n - k \in below
  OBVIOUS
<1>5. \A k \in X : k <= b
  <2> SUFFICES ASSUME NEW k \in X PROVE k <= b
    OBVIOUS
  <2>1. n - b <= n - k
    BY <1>2, <1>3, <1>4
  <2>2. QED
    BY <2>1
<1>6. Max(X) = b
  BY <1>5, GreatestIsMax
<1>7. QED
  BY <1>5, <1>6

\* Every list that holds a line, whatever is between, has a statement that holds it: the
\* first line around it, or itself, that stands after the head of the list.
LEMMA StatementExists ==
  ASSUME NEW p \in Seq(OutlineLine), NEW i \in DOMAIN p, NEW b \in Enclosing(p, i)
  PROVE  /\ StatementOf(p, b, i) \in Above(p, i) \cup {i}
         /\ b \in Enclosing(p, StatementOf(p, b, i))
         /\ \A k \in Enclosing(p, StatementOf(p, b, i)) : k <= b
<1>1. Len(p) \in Nat /\ DOMAIN p = 1..Len(p)
  OBVIOUS
<1>2. Above(p, i) \subseteq 1..(i - 1)
  BY DEF Above
<1>3. b \in 0..(i - 1)
  BY <1>1, <1>2 DEF Enclosing
<1> DEFINE X == {j \in Above(p, i) \cup {i} : b < j}
<1>4. X \subseteq Nat /\ i \in X
  BY <1>1, <1>2, <1>3
<1>5. PICK j \in X : \A m \in X : j <= m
  BY <1>4, LeastNatural
<1>6. j \in Above(p, i) \cup {i} /\ b < j /\ j \in DOMAIN p /\ j <= i
  BY <1>1, <1>2, <1>5
<1>7. b \in Enclosing(p, j)
  <2>1. CASE b = 0
    BY <2>1 DEF Enclosing
  <2>2. CASE b \in Above(p, i)
    BY <1>3, <1>6, <2>2, AboveNests DEF Enclosing
  <2>3. QED
    BY <2>1, <2>2 DEF Enclosing
<1>8. ASSUME NEW k \in Enclosing(p, j)
      PROVE  k <= b
  <2>1. CASE k = 0
    BY <1>3, <2>1
  <2>2. CASE k \in Above(p, j)
    <3>1. k \in 1..(j - 1)
      BY <2>2 DEF Above
    <3>2. k \in Above(p, i) /\ k < j
      BY <1>1, <1>6, <2>2, <3>1, AboveNests
    <3>3. k \notin X
      BY <1>1, <1>5, <1>6, <3>1, <3>2
    <3>4. QED
      BY <1>1, <1>3, <1>6, <3>1, <3>2, <3>3
  <2>3. QED
    BY <2>1, <2>2 DEF Enclosing
<1> HIDE DEF X
<1>9. \A x \in Above(p, i) \cup {i} : x \in DOMAIN p /\ Enclosing(p, x) \in SUBSET (0..Len(p)) /\ 0 \in Enclosing(p, x)
  BY <1>1, <1>2 DEF Enclosing, Above
<1>10. Max(Enclosing(p, j)) = b
  <2>1. Enclosing(p, j) \in SUBSET Int
    BY <1>6, <1>9
  <2>2. QED
    BY <2>1, <1>7, <1>8, GreatestIsMax
<1>11. PICK t : t = StatementOf(p, b, i)
  OBVIOUS
<1>12. t \in Above(p, i) \cup {i} /\ Max(Enclosing(p, t)) = b
  BY <1>6, <1>10, <1>11 DEF StatementOf
<1>13. b \in Enclosing(p, t) /\ \A k \in Enclosing(p, t) : k <= b
  <2>1. Enclosing(p, t) \in SUBSET (0..Len(p)) /\ Enclosing(p, t) # {}
    BY <1>9, <1>12
  <2>2. QED
    BY <1>1, <1>12, <2>1, MaxIsGreatest
<1>14. QED
  BY <1>11, <1>12, <1>13

\* A guard in an earlier statement of one of the sink's lists stands before the sink.
LEMMA GuardStandsBefore ==
  ASSUME NEW p \in Seq(OutlineLine), NEW s \in DOMAIN p, NEW g \in DOMAIN p,
         NEW b \in Enclosing(p, s), b \in Enclosing(p, g),
         StatementOf(p, b, g) < StatementOf(p, b, s)
  PROVE  g < s
<1> DEFINE js == StatementOf(p, b, s)
           jg == StatementOf(p, b, g)
<1>1. Len(p) \in Nat /\ DOMAIN p = 1..Len(p)
  OBVIOUS
<1>2. /\ js \in Above(p, s) \cup {s} /\ \A k \in Enclosing(p, js) : k <= b
      /\ jg \in Above(p, g) \cup {g} /\ b \in Enclosing(p, jg)
  BY StatementExists
<1>3. jg < js
  OBVIOUS
<1> HIDE DEF js, jg
<1>4. /\ js \in 1..s /\ jg \in 1..g
  BY <1>1, <1>2 DEF Above
<1>5. b < jg
  BY <1>2, <1>4 DEF Enclosing, Above
<1>6. SUFFICES ASSUME s <= g
               PROVE  FALSE
  BY <1>1
<1>7. jg \in Above(p, g) /\ js \in (jg + 1)..g
  BY <1>1, <1>2, <1>3, <1>4, <1>6
<1>8. jg \in Above(p, js)
  <2>1. jg \in 1..(js - 1)
    BY <1>3, <1>4
  <2>2. \A m \in (jg + 1)..g : p[jg].depth < p[m].depth
    BY <1>7 DEF Above
  <2>3. \A m \in (jg + 1)..js : m \in (jg + 1)..g
    BY <1>1, <1>4, <1>7
  <2>4. QED
    BY <2>1, <2>2, <2>3 DEF Above
<1>9. jg <= b
  BY <1>2, <1>8 DEF Enclosing
<1>10. b \in Int
  BY <1>2, <1>4, <1>1 DEF Enclosing, Above
<1>11. QED
  BY <1>4, <1>5, <1>9, <1>10

\* What the audit reports as covered is guarded in every run, where no guard is buried.
LEMMA CoveredIsGuarded ==
  ASSUME NEW p \in Seq(OutlineLine), GuardsStandOut(p), NEW s \in Sinks(p), IsCovered(p, s)
  PROVE  ~RunsUnguarded(p, s)
<1>1. PICK b \in Enclosing(p, s), g \in GuardCalls(p) :
        /\ InScope(p, g, s) /\ b \in Enclosing(p, g)
        /\ StatementOf(p, b, g) < StatementOf(p, b, s)
  BY DEF IsCovered
<1>2. s \in DOMAIN p /\ g \in DOMAIN p
  BY DEF Sinks, GuardCalls, LinesOf
<1>3. g < s
  BY <1>1, <1>2, GuardStandsBefore
<1>4. Branches(p, g) \subseteq Branches(p, s)
  BY <1>1, <1>3 DEF GuardsStandOut
<1>5. QED
  BY <1>1, <1>3, <1>4 DEF RunsUnguarded

\* The parts of a report.
LEMMA ReportParts ==
  ASSUME NEW p \in Seq(OutlineLine), NEW list, NEW e \in Nat, NEW r, r = BuildReport(p, list, e)
  PROVE  /\ r.covered = {s \in Sinks(p) : IsCovered(p, s)}
         /\ r.gaps \cup r.accepted = Sinks(p) \ r.covered
         /\ r.gaps = {s \in Sinks(p) \ r.covered : ~Allowlisted(list, s)}
         /\ r.accepted = {s \in Sinks(p) \ r.covered : Allowlisted(list, s)}
         /\ r.unanalyzable = Aliases(p)
         /\ r.guarded \in Nat /\ Cardinality(r.gaps) \in Nat
<1> DEFINE covered == {s \in Sinks(p) : Classification(p, s) = "COVERED"}
           gaps == {s \in Sinks(p) \ covered : ~Allowlisted(list, s)}
<1>1. /\ r.covered = covered /\ r.gaps = gaps /\ r.accepted = Sinks(p) \ (covered \cup gaps)
      /\ r.unanalyzable = Aliases(p) /\ r.guarded = Cardinality(covered) + e
  BY DEF BuildReport
<1>2. covered = {s \in Sinks(p) : IsCovered(p, s)}
  BY DEF Classification
<1>3. IsFiniteSet(Sinks(p))
  <2>1. Len(p) \in Nat /\ DOMAIN p = 1..Len(p)
    OBVIOUS
  <2>2. Sinks(p) \in SUBSET (1..Len(p))
    BY <2>1 DEF Sinks, LinesOf
  <2>3. IsFiniteSet(1..Len(p))
    BY <2>1, FiniteIntervals
  <2>4. QED
    BY <2>2, <2>3, FS_Subset
<1>4. Cardinality(covered) \in Nat /\ Cardinality(gaps) \in Nat
  <2>1. covered \in SUBSET Sinks(p) /\ gaps \in SUBSET Sinks(p)
    OBVIOUS
  <2> HIDE DEF covered, gaps
  <2>2. IsFiniteSet(covered) /\ IsFiniteSet(gaps)
    BY <1>3, <2>1, FS_Subset
  <2>3. QED
    BY <2>2, FS_CardinalityType
<1>5. Sinks(p) \ (covered \cup gaps) = {s \in Sinks(p) \ covered : Allowlisted(list, s)}
  OBVIOUS
<1>6. gaps \cup (Sinks(p) \ (covered \cup gaps)) = Sinks(p) \ covered
  OBVIOUS
<1>7. gaps = {s \in Sinks(p) \ covered : ~Allowlisted(list, s)}
  OBVIOUS
<1> HIDE DEF covered, gaps
<1>8. r.guarded \in Nat
  BY <1>1, <1>4
<1>9. QED
  BY <1>1, <1>2, <1>4, <1>5, <1>6, <1>7, <1>8

\* The gate's threshold, in the arithmetic of the rounded percentage.
LEMMA ThresholdHolds ==
  ASSUME NEW guarded \in Nat, NEW gaps \in Nat, NEW n, n = guarded + gaps,
         NEW f \in 0..100, n = 0 \/ (200 * guarded + n) \div (2 * n) >= f
  PROVE  200 * gaps <= (201 - 2 * f) * n
<1>1. CASE n = 0
  <2>1. gaps = 0
    BY <1>1
  <2>2. (201 - 2 * f) * n = 0
    BY <1>1
  <2>3. QED
    BY <2>1, <2>2
<1>2. CASE n # 0
  <2>1. n \in Nat /\ n > 0 /\ 2 * n > 0
    BY <1>2
  <2>2. PICK q : q = (200 * guarded + n) \div (2 * n)
    OBVIOUS
  <2>3. q \in Int /\ q >= f /\ (2 * n) * q <= 200 * guarded + n
    <3>1. 200 * guarded + n \in Nat /\ 2 * n \in Nat \ {0}
      BY <2>1
    <3>2. \A a \in Nat, d \in Nat \ {0} : a \div d \in Int /\ d * (a \div d) <= a
      OBVIOUS
    <3>3. q \in Int /\ (2 * n) * q <= 200 * guarded + n
      <4>1. PICK a \in Nat, d \in Nat \ {0} : a = 200 * guarded + n /\ d = 2 * n
        BY <3>1
      <4>2. a \div d \in Int /\ d * (a \div d) <= a
        BY <3>2
      <4>3. q = a \div d
        BY <2>2, <4>1
      <4>4. QED
        BY <4>1, <4>2, <4>3, Zenon
    <3>4. QED
      BY <1>2, <2>2, <3>3
  <2>4. (2 * n) * f <= (2 * n) * q
    <3>1. \A d \in Nat, x, y \in Int : x <= y => d * x <= d * y
      OBVIOUS
    <3>2. 2 * n \in Nat /\ f \in Int /\ f <= q
      BY <2>1, <2>3
    <3>3. QED
      BY <2>3, <3>1, <3>2
  <2>5. (201 - 2 * f) * n = 201 * n - (2 * n) * f
    BY <2>1
  <2>6. PICK c : c = (2 * n) * f /\ c \in Int
    BY <2>1
  <2>7. PICK d : d = (2 * n) * q /\ d \in Int
    BY <2>1, <2>3
  <2>8. c <= d /\ d <= 200 * guarded + n /\ (201 - 2 * f) * n = 201 * n - c
    BY <2>3, <2>4, <2>5, <2>6, <2>7
  <2>9. QED
    BY <2>1, <2>6, <2>7, <2>8
<1>3. QED
  BY <1>1, <1>2

\* What is reported is the file as it stands, and the gate judged what is reported.
GateInv ==
  /\ outline \in Seq(OutlineLine)
  /\ settings \in [failUnder : 0..100, onUnanalyzable : {"warn", "block"}, elsewhere : Nat]
  /\ statement # NoReport => statement = CurrentReport /\ ConfigLoads
  /\ \A code \in {0, 1} : ended = Ended("enforce", code) =>
       statement = CurrentReport /\ ConfigLoads /\ (GatePasses(statement, settings) <=> code = 0)

LEMMA EditKeepsOutline ==
  ASSUME NEW p \in Seq(OutlineLine), NEW i \in 1..Len(p) + 1, NEW l \in OutlineLine
  PROVE  InsertAt(p, i, l) \in Seq(OutlineLine)
<1>1. SubSeq(p, 1, i - 1) \in Seq(OutlineLine)
  OBVIOUS
<1>2. SubSeq(p, i, Len(p)) \in Seq(OutlineLine)
  OBVIOUS
<1>3. <<l>> \in Seq(OutlineLine)
  OBVIOUS
<1>4. QED
  BY <1>1, <1>2, <1>3 DEF InsertAt

LEMMA GateKeeps == GateInv /\ [CoverageNext]_coverageVars => GateInv'
<1> SUFFICES ASSUME GateInv, [CoverageNext]_coverageVars PROVE GateInv'
  OBVIOUS
<1>0. \A code \in {0, 1} : NotRun # Ended("enforce", code)
  BY DEF NotRun, Ended
<1>1. CASE EditSource
  <2>1. outline' \in Seq(OutlineLine)
    BY <1>1, EditKeepsOutline, CoverageAssumption DEF EditSource, GateInv
  <2>2. QED
    BY <1>0, <1>1, <2>1 DEF EditSource, Outdate, GateInv
<1>2. CASE AcceptGap
  BY <1>0, <1>2 DEF AcceptGap, Outdate, GateInv
<1>3. ASSUME NEW name, NEW result, Command(name, result),
             \A code \in {0, 1} : Ended(name, result) = Ended("enforce", code) =>
               (GatePasses(CurrentReport, settings) <=> code = 0)
      PROVE  GateInv'
  <2>1. UNCHANGED <<outline, allowed, settings>>
    BY <1>3 DEF Command
  <2>2. CurrentReport' = CurrentReport /\ ConfigLoads' = ConfigLoads
    BY <2>1 DEF CurrentReport, ConfigLoads
  <2>3. CASE ConfigLoads
    <3>1. statement' = CurrentReport /\ ended' = Ended(name, result)
      BY <1>3, <2>3 DEF Command
    <3>2. \A code \in {0, 1} : ended' = Ended("enforce", code) =>
            (GatePasses(statement, settings)' <=> code = 0)
      BY <1>3, <2>1, <3>1 DEF GatePasses, EnforcedPercent, EnforceableSinks
    <3>3. QED
      BY <2>1, <2>2, <2>3, <3>1, <3>2 DEF GateInv
  <2>4. CASE ~ConfigLoads
    <3>1. statement' = NoReport /\ ended' = Ended(name, 2)
      BY <1>3, <2>4 DEF Command
    <3>2. \A code \in {0, 1} : ended' # Ended("enforce", code)
      BY <3>1 DEF Ended
    <3>3. QED
      BY <2>1, <3>1, <3>2 DEF GateInv
  <2>5. QED
    BY <2>3, <2>4
<1>4. CASE AuditCommand
  BY <1>3, <1>4 DEF AuditCommand, Ended
<1>5. CASE EnforceCommand
  <2>1. PICK code : code = IF GatePasses(CurrentReport, settings) THEN 0 ELSE 1
    OBVIOUS
  <2>2. Command("enforce", code)
    BY <1>5, <2>1 DEF EnforceCommand
  <2>3. \A c \in {0, 1} : Ended("enforce", code) = Ended("enforce", c) =>
          (GatePasses(CurrentReport, settings) <=> c = 0)
    BY <2>1 DEF Ended
  <2>4. QED
    BY <1>3, <2>2, <2>3
<1>6. CASE UNCHANGED coverageVars
  BY <1>6 DEF coverageVars, GateInv, CurrentReport, ConfigLoads, GatePasses, EnforcedPercent, EnforceableSinks
<1>7. QED
  BY <1>1, <1>2, <1>4, <1>5, <1>6 DEF CoverageNext

LEMMA GateStarts == CoverageInit => GateInv
<1> SUFFICES ASSUME CoverageInit PROVE GateInv
  OBVIOUS
<1>1. outline \in Seq(OutlineLine)
  BY CoverageAssumption DEF CoverageInit
<1>2. settings \in [failUnder : 0..100, onUnanalyzable : {"warn", "block"}, elsewhere : Nat]
  BY CoverageAssumption DEF CoverageInit
<1>3. statement = NoReport /\ \A code \in {0, 1} : ended # Ended("enforce", code)
  BY DEF CoverageInit, NotRun, Ended
<1>4. QED
  BY <1>1, <1>2, <1>3 DEF GateInv

\* What the audit reports: where no guard is buried in a branch, a sink that some run reaches
\* unguarded is a gap or an exception, and every declared sink is in one section: runAudit,
\* classifyDirect and buildReport.
LEMMA ReportIsRight ==
  ASSUME GateInv
  PROVE  ReportCatchesGaps
<1> SUFFICES ASSUME statement # NoReport
             PROVE  /\ GuardsStandOut(outline) =>
                         {s \in Sinks(outline) : RunsUnguarded(outline, s)}
                         \subseteq statement.gaps \cup statement.accepted
                    /\ \A s \in statement.gaps \cup statement.accepted :
                         ~Indeterminate(outline, s) => \A g \in GuardCalls(outline) : ~InScope(outline, g, s)
                    /\ \A s \in Sinks(outline) :
                         Cardinality({x \in {"covered", "gaps", "accepted"} : s \in statement[x]}) = 1
  BY DEF ReportCatchesGaps
<1>1. outline \in Seq(OutlineLine) /\ statement = BuildReport(outline, allowed, settings.elsewhere)
      /\ settings.elsewhere \in Nat
  BY DEF GateInv, CurrentReport
<1>2. /\ statement.covered = {s \in Sinks(outline) : IsCovered(outline, s)}
      /\ statement.gaps \cup statement.accepted = Sinks(outline) \ statement.covered
      /\ statement.gaps = {s \in Sinks(outline) \ statement.covered : ~Allowlisted(allowed, s)}
      /\ statement.accepted = {s \in Sinks(outline) \ statement.covered : Allowlisted(allowed, s)}
  BY <1>1, ReportParts
<1>3. ASSUME GuardsStandOut(outline), NEW s \in Sinks(outline), RunsUnguarded(outline, s)
      PROVE  s \in statement.gaps \cup statement.accepted
  BY <1>1, <1>2, <1>3, CoveredIsGuarded
<1>4. ASSUME NEW s \in statement.gaps \cup statement.accepted, ~Indeterminate(outline, s),
             NEW g \in GuardCalls(outline)
      PROVE  ~InScope(outline, g, s)
  BY <1>2, <1>4 DEF Indeterminate
<1>5. ASSUME NEW s \in Sinks(outline)
      PROVE  Cardinality({x \in {"covered", "gaps", "accepted"} : s \in statement[x]}) = 1
  <2>1. PICK y \in {"covered", "gaps", "accepted"} :
          {x \in {"covered", "gaps", "accepted"} : s \in statement[x]} = {y}
    <3>1. CASE s \in statement.covered
      BY <1>2, <3>1
    <3>2. CASE s \in statement.gaps
      BY <1>2, <3>2
    <3>3. CASE s \in statement.accepted
      BY <1>2, <3>3
    <3>4. QED
      BY <1>2, <3>1, <3>2, <3>3
  <2>2. QED
    BY <2>1, FS_Singleton
<1>6. QED
  BY <1>3, <1>4, <1>5

\* What an enforce command judged, with the settings it judged by.
LEMMA JudgedReport ==
  ASSUME GateInv, NEW code \in {0, 1}, ended = Ended("enforce", code)
  PROVE  /\ statement.accepted = {s \in Sinks(outline) \ statement.covered : Allowlisted(allowed, s)}
         /\ statement.unanalyzable = Aliases(outline)
         /\ statement.guarded \in Nat /\ Cardinality(statement.gaps) \in Nat
         /\ statement.gaps = {} <=> Cardinality(statement.gaps) = 0
         /\ settings.failUnder \in 0..100 /\ settings.onUnanalyzable \in {"warn", "block"}
         /\ ConfigLoads /\ (GatePasses(statement, settings) <=> code = 0)
<1>1. /\ outline \in Seq(OutlineLine) /\ statement = BuildReport(outline, allowed, settings.elsewhere)
      /\ settings.elsewhere \in Nat /\ settings.failUnder \in 0..100
      /\ settings.onUnanalyzable \in {"warn", "block"}
      /\ ConfigLoads /\ (GatePasses(statement, settings) <=> code = 0)
  BY DEF GateInv, CurrentReport
<1>2. /\ statement.gaps = {s \in Sinks(outline) \ statement.covered : ~Allowlisted(allowed, s)}
      /\ statement.accepted = {s \in Sinks(outline) \ statement.covered : Allowlisted(allowed, s)}
      /\ statement.unanalyzable = Aliases(outline)
      /\ statement.guarded \in Nat /\ Cardinality(statement.gaps) \in Nat
  BY <1>1, ReportParts
<1>3. IsFiniteSet(statement.gaps)
  <2>1. Len(outline) \in Nat /\ DOMAIN outline = 1..Len(outline)
    BY <1>1
  <2>2. statement.gaps \in SUBSET (1..Len(outline))
    BY <1>2, <2>1 DEF Sinks, LinesOf
  <2>3. QED
    BY <2>1, <2>2, FiniteIntervals, FS_Subset
<1>4. QED
  BY <1>1, <1>2, <1>3, FS_EmptySet

\* What the rounding of enforce.ts:51 can hide: of the enforceable sinks, half a percent more
\* than the threshold allows.
GapsWithinRounding ==
  ended = Ended("enforce", 0) =>
    200 * Cardinality(statement.gaps) <= (201 - 2 * settings.failUnder) * EnforceableSinks(statement)

LEMMA PassedWithinRounding ==
  ASSUME GateInv
  PROVE  GapsWithinRounding
<1> SUFFICES ASSUME ended = Ended("enforce", 0)
             PROVE  200 * Cardinality(statement.gaps)
                      <= (201 - 2 * settings.failUnder) * EnforceableSinks(statement)
  BY DEF GapsWithinRounding
<1>1. PICK n : n = EnforceableSinks(statement)
  OBVIOUS
<1>2. n = statement.guarded + Cardinality(statement.gaps)
  BY <1>1 DEF EnforceableSinks
<1>3. n = 0 \/ (200 * statement.guarded + n) \div (2 * n) >= settings.failUnder
  BY <1>1, JudgedReport DEF GatePasses, EnforcedPercent
<1>4. PICK guarded, gaps, f : /\ guarded = statement.guarded
                              /\ gaps = Cardinality(statement.gaps) /\ f = settings.failUnder
  OBVIOUS
<1>5. /\ guarded \in Nat /\ gaps \in Nat /\ f \in 0..100 /\ n = guarded + gaps
      /\ n = 0 \/ (200 * guarded + n) \div (2 * n) >= f
  BY <1>2, <1>3, <1>4, JudgedReport
<1>6. 200 * gaps <= (201 - 2 * f) * n
  BY <1>5, ThresholdHolds
<1>7. QED
  BY <1>1, <1>4, <1>6

\* The extent of what FullThresholdMeansNoGap refutes: an enforce that passes has at most half a
\* percent more gaps than its threshold allows, for files of any length: evaluateEnforcement.
THEOREM GateRoundsAtMostHalf == CoverageSpec => []GapsWithinRounding
  BY GateStarts, PassedWithinRounding, GateKeeps, PTL DEF CoverageSpec

\* Without a gap the rounded percentage is at least 100.
LEMMA NoGapIsWhole ==
  ASSUME NEW n \in Nat \ {0}
  PROVE  (200 * n + n) \div (2 * n) >= 100
<1>1. \A a \in Nat, d \in Nat \ {0} : a \div d \in Int /\ a < d * (a \div d + 1)
  OBVIOUS
<1>2. PICK a \in Nat, d \in Nat \ {0} : a = 200 * n + n /\ d = 2 * n
  OBVIOUS
<1>3. PICK q \in Int : q = a \div d /\ a < d * (q + 1)
  BY <1>1
<1>4. \A e \in Nat, x, y \in Int : x <= y => e * x <= e * y
  OBVIOUS
<1>5. q + 1 <= 100 => d * (q + 1) <= d * 100
  BY <1>4
<1>6. d * 100 <= a
  BY <1>2
<1>7. q >= 100
  <2>1. PICK m \in Int : m = d * (q + 1)
    OBVIOUS
  <2>2. q + 1 <= 100 => m <= d * 100
    BY <1>5, <2>1
  <2>3. QED
    BY <1>3, <1>6, <2>1, <2>2
<1>8. QED
  BY <1>2, <1>3, <1>7

\* The build gate lets no file with gaps pass when nothing is guarded and something is required,
\* an exception only with its reason, and nothing it cannot analyze when told to block it; it
\* fails a build only over a gap or over what it blocks; and the report it judges is the right
\* one: evaluateEnforcement and the command, for files of any length.
THEOREM CoverageGateHolds == CoverageSpec => []GateCatchesGaps
<1>1. GateInv => GateCatchesGaps
  <2> SUFFICES ASSUME GateInv PROVE GateCatchesGaps
    OBVIOUS
  <2> DEFINE gaps == Cardinality(statement.gaps)
  <2>1. ASSUME ended = Ended("enforce", 0)
        PROVE  /\ statement.accepted # {} => \E a \in allowed : a.reason
               /\ settings.onUnanalyzable = "block" => Aliases(outline) = {}
               /\ statement.gaps # {} /\ settings.failUnder > 0 => statement.guarded > 0
    <3>1. statement.accepted # {} => \E a \in allowed : a.reason
      BY <2>1, JudgedReport DEF Allowlisted, ConfigLoads
    <3>2. settings.onUnanalyzable = "block" => Aliases(outline) = {}
      BY <2>1, JudgedReport DEF GatePasses
    <3>3. ASSUME statement.gaps # {}, settings.failUnder > 0, statement.guarded = 0 PROVE FALSE
      <4>1. 200 * gaps <= (201 - 2 * settings.failUnder) * gaps
        BY <2>1, <3>3, JudgedReport, PassedWithinRounding DEF GapsWithinRounding, EnforceableSinks
      <4>2. gaps \in Nat /\ gaps > 0 /\ settings.failUnder \in 1..100
        BY <2>1, <3>3, JudgedReport
      <4>3. \A g \in Nat, f \in 1..100 : g > 0 => (201 - 2 * f) * g <= 199 * g
        OBVIOUS
      <4> HIDE DEF gaps
      <4>4. QED
        BY <4>1, <4>2, <4>3
    <3>4. QED
      BY <2>1, <3>1, <3>2, <3>3, JudgedReport
  <2>2. ASSUME ended = Ended("enforce", 1), statement.gaps = {}
        PROVE  settings.onUnanalyzable = "block" /\ Aliases(outline) # {}
    <3>1. EnforceableSinks(statement) = statement.guarded /\ statement.guarded \in Nat
      BY <2>2, JudgedReport DEF EnforceableSinks
    <3>2. statement.guarded # 0 => EnforcedPercent(statement) >= 100
      BY <3>1, NoGapIsWhole DEF EnforcedPercent
    <3>3. settings.failUnder \in 0..100 /\ ~GatePasses(statement, settings)
          /\ settings.onUnanalyzable \in {"warn", "block"} /\ statement.unanalyzable = Aliases(outline)
      BY <2>2, JudgedReport
    <3>4. EnforcedPercent(statement) \in Int \/ statement.guarded = 0
      BY <3>1 DEF EnforcedPercent
    <3>5. EnforceableSinks(statement) = 0 \/ EnforcedPercent(statement) >= settings.failUnder
      BY <3>1, <3>2, <3>3, <3>4
    <3>6. QED
      BY <3>3, <3>5 DEF GatePasses
  <2>3. QED
    BY <2>1, <2>2, ReportIsRight DEF GateCatchesGaps
<1>2. QED
  BY <1>1, GateStarts, GateKeeps, PTL DEF CoverageSpec

\* Both observers together: whoever reads the metrics or the gate's exit code is told what
\* the guard said and where it was not asked.  Each holds of its own steps, so they need not
\* be synchronised.
THEOREM ObserversAreRight == ProtocolsSpec /\ CoverageSpec => []ObserversTell
<1>1. TallyTells /\ GateCatchesGaps => ObserversTell
  BY DEF ObserversTell
<1>2. QED
  BY <1>1, CollectorTellsVerdicts, CoverageGateHolds, PTL

-----------------------------------------------------------------------------
(* The state search.  What a table reaches is a recursive function of the number of    *)
(* moves; its equations are had from an explicit one, the last states of the walks of  *)
(* n moves or pauses, and its other properties from a least counterexample.            *)

TypeCount == Cardinality(StateTypes)
Searchable == table \in [StateTypes -> SUBSET StateTypes] /\ start \in StateTypes
Succs(S) == S \cup UNION {table[s] : s \in S}

LEMMA TypesAreFinite == IsFiniteSet(StateTypes) /\ TypeCount \in Nat
<1>1. \A S, x : IsFiniteSet(S) => IsFiniteSet(S \cup {x})
  BY FS_AddElement
<1>2. IsFiniteSet({})
  BY FS_EmptySet
<1>3. StateTypes = (((((((((({} \cup {"Draft"}) \cup {"Proposed"}) \cup {"Tendered"}) \cup {"Accepted"})
                     \cup {"Modified"}) \cup {"PartiallyFulfilled"}) \cup {"Active"}) \cup {"Fulfilled"})
                     \cup {"Cancelled"}) \cup {"Disputed"}) \cup {"Refunded"}
  BY DEF StateTypes, CommitmentTransitions
<1>4. IsFiniteSet(StateTypes)
  BY <1>1, <1>2, <1>3
<1>5. QED
  BY <1>4, FS_CardinalityType DEF TypeCount

\* The equations of Within.
WithinEquations ==
  /\ DOMAIN Within = 0..TypeCount
  /\ Within[0] = {start}
  /\ \A n \in 1..TypeCount : Within[n] = Succs(Within[n - 1])

LEMMA WithinIs == ASSUME Searchable PROVE WithinEquations
<1> DEFINE Step(n, g) == IF n = 0 THEN {start}
                         ELSE LET nearer == g[n - 1] IN nearer \cup UNION {table[s] : s \in nearer}
           Walks(n) == {w \in [0..n -> StateTypes] :
                          w[0] = start /\ \A i \in 1..n : w[i] = w[i - 1] \/ w[i] \in table[w[i - 1]]}
           ends == [n \in 0..TypeCount |-> {w[n] : w \in Walks(n)}]
<1>1. TypeCount \in Nat
  BY TypesAreFinite
<1>2. {w[0] : w \in Walks(0)} = {start}
  <2>1. \A w \in Walks(0) : w[0] = start
    OBVIOUS
  <2>2. [i \in 0..0 |-> start] \in Walks(0)
    BY DEF Searchable
  <2>3. [i \in 0..0 |-> start][0] = start
    OBVIOUS
  <2>4. QED
    BY <2>1, <2>2, <2>3
<1>3. ASSUME NEW n \in 1..TypeCount
      PROVE  {w[n] : w \in Walks(n)} = Succs({w[n - 1] : w \in Walks(n - 1)})
  <2>0. n \in Nat /\ n >= 1 /\ n - 1 \in Nat
    BY <1>1
  <2>1. ASSUME NEW w \in Walks(n)
        PROVE  w[n] \in Succs({v[n - 1] : v \in Walks(n - 1)})
    <3> DEFINE v == [i \in 0..(n - 1) |-> w[i]]
    <3>1. v \in Walks(n - 1)
      BY <2>0
    <3>2. v[n - 1] = w[n - 1]
      BY <2>0
    <3>3. w[n] = w[n - 1] \/ w[n] \in table[w[n - 1]]
      BY <2>0
    <3> HIDE DEF v, Walks
    <3>4. QED
      BY <3>1, <3>2, <3>3 DEF Succs
  <2>2. ASSUME NEW x \in Succs({v[n - 1] : v \in Walks(n - 1)})
        PROVE  x \in {w[n] : w \in Walks(n)}
    <3>1. PICK v \in Walks(n - 1) : x = v[n - 1] \/ x \in table[v[n - 1]]
      <4> HIDE DEF Walks
      <4>1. QED
        BY DEF Succs
    <3> DEFINE w == [i \in 0..n |-> IF i = n THEN x ELSE v[i]]
    <3>2. x \in StateTypes
      BY <2>0, <3>1 DEF Searchable
    <3>3. w \in [0..n -> StateTypes]
      BY <2>0, <3>2
    <3>4. w[0] = start
      BY <2>0
    <3>5. ASSUME NEW i \in 1..n
          PROVE  w[i] = w[i - 1] \/ w[i] \in table[w[i - 1]]
      <4>1. CASE i = n
        BY <2>0, <3>1, <4>1
      <4>2. CASE i # n
        BY <2>0, <4>2
      <4>3. QED
        BY <4>1, <4>2
    <3>6. w \in Walks(n) /\ w[n] = x
      BY <2>0, <3>3, <3>4, <3>5
    <3> HIDE DEF Walks, w
    <3>7. QED
      BY <3>6
  <2>3. QED
    BY <2>1, <2>2
<1>4. ends = [n \in 0..TypeCount |-> Step(n, ends)]
  <2> SUFFICES ASSUME NEW n \in 0..TypeCount PROVE ends[n] = Step(n, ends)
    OBVIOUS
  <2>1. CASE n = 0
    <3> HIDE DEF Walks
    <3>1. QED
      BY <1>1, <1>2, <2>1
  <2>2. CASE n # 0
    <3>1. n \in 1..TypeCount /\ n - 1 \in 0..TypeCount
      BY <1>1, <2>2
    <3> HIDE DEF Walks
    <3>2. QED
      BY <1>3, <2>2, <3>1 DEF Succs
  <2>3. QED
    BY <2>1, <2>2
<1> HIDE DEF ends
<1>5. Within = [n \in 0..TypeCount |-> Step(n, Within)]
  BY <1>4, Zenon DEF Within, TypeCount
<1>6. QED
  <2>1. DOMAIN Within = 0..TypeCount
    BY <1>5
  <2>2. 0 \in 0..TypeCount /\ \A n \in 1..TypeCount : n \in 0..TypeCount /\ n # 0
    BY <1>1
  <2>3. QED
    BY <1>5, <2>1, <2>2 DEF WithinEquations, Succs

LEMMA WithinTypes == ASSUME Searchable PROVE \A n \in 0..TypeCount : Within[n] \subseteq StateTypes
<1>1. TypeCount \in Nat /\ WithinEquations
  BY TypesAreFinite, WithinIs
<1> DEFINE X == {n \in 0..TypeCount : ~(Within[n] \subseteq StateTypes)}
<1>2. SUFFICES ASSUME X # {} PROVE FALSE
  OBVIOUS
<1>3. PICK n \in X : \A k \in X : n <= k
  <2>1. X \in SUBSET Nat
    BY <1>1
  <2>2. QED
    BY <1>2, <2>1, LeastNatural
<1>4. n # 0
  BY <1>1 DEF WithinEquations, Searchable
<1>5. n \in 1..TypeCount /\ n - 1 \in 0..TypeCount /\ ~(n <= n - 1)
  BY <1>1, <1>4
<1>6. Within[n - 1] \subseteq StateTypes
  BY <1>3, <1>5
<1>7. Within[n] = Succs(Within[n - 1])
  BY <1>1, <1>5 DEF WithinEquations
<1>8. QED
  BY <1>6, <1>7 DEF Succs, Searchable

LEMMA WithinGrows ==
  ASSUME Searchable, NEW m \in 0..TypeCount, NEW n \in m..TypeCount
  PROVE  Within[m] \subseteq Within[n]
<1>1. TypeCount \in Nat /\ WithinEquations
  BY TypesAreFinite, WithinIs
<1> DEFINE X == {k \in m..TypeCount : ~(Within[m] \subseteq Within[k])}
<1>2. SUFFICES ASSUME X # {} PROVE FALSE
  OBVIOUS
<1>3. X \in SUBSET Nat
  BY <1>1
<1>4. PICK k \in X : \A l \in X : k <= l
  BY <1>2, <1>3, LeastNatural
<1>5. k # m
  OBVIOUS
<1>6. k \in 1..TypeCount /\ k - 1 \in m..TypeCount /\ ~(k <= k - 1)
  BY <1>1, <1>5
<1>7. Within[m] \subseteq Within[k - 1]
  BY <1>4, <1>6
<1>8. Within[k] = Succs(Within[k - 1])
  BY <1>1, <1>6 DEF WithinEquations
<1>9. QED
  BY <1>7, <1>8 DEF Succs

\* Once a move reaches nothing new, no later one does.
LEMMA WithinStops ==
  ASSUME Searchable, NEW k \in 1..TypeCount, Within[k] = Within[k - 1], NEW n \in k..TypeCount
  PROVE  Within[n] = Within[k - 1]
<1>1. TypeCount \in Nat /\ WithinEquations
  BY TypesAreFinite, WithinIs
<1> DEFINE X == {l \in k..TypeCount : Within[l] # Within[k - 1]}
<1>2. SUFFICES ASSUME X # {} PROVE FALSE
  OBVIOUS
<1>3. X \in SUBSET Nat
  BY <1>1
<1>4. PICK l \in X : \A i \in X : l <= i
  BY <1>2, <1>3, LeastNatural
<1>5. l # k
  OBVIOUS
<1>6. l \in 1..TypeCount /\ l - 1 \in k..TypeCount /\ ~(l <= l - 1)
  BY <1>1, <1>5
<1>7. Within[l - 1] = Within[k - 1]
  BY <1>4, <1>6
<1>8. Within[l] = Succs(Within[l - 1]) /\ Within[k] = Succs(Within[k - 1])
  BY <1>1, <1>6 DEF WithinEquations
<1>9. QED
  BY <1>7, <1>8

\* The state is reached in d moves and in no fewer.
ReachedAt(s, d) ==
  d \in 0..TypeCount /\ s \in Within[d] /\ \A n \in 0..(d - 1) : s \notin Within[n]

\* Each move up to d reaches something new, so that there is room for one more.
LEMMA ReachedBelowCount ==
  ASSUME Searchable, NEW s, NEW d, ReachedAt(s, d)
  PROVE  d < TypeCount
<1>1. TypeCount \in Nat /\ WithinEquations /\ IsFiniteSet(StateTypes) /\ d \in 0..TypeCount
  BY TypesAreFinite, WithinIs DEF ReachedAt
<1>2. \A n \in 0..TypeCount : /\ Within[n] \subseteq StateTypes
                              /\ IsFiniteSet(Within[n]) /\ Cardinality(Within[n]) \in Nat
                              /\ Cardinality(Within[n]) <= TypeCount
  BY <1>1, WithinTypes, FS_Subset, FS_CardinalityType DEF TypeCount
<1> DEFINE X == {k \in 0..d : Cardinality(Within[k]) < k + 1}
<1>3. CASE X = {}
  <2>1. d \in 0..d
    BY <1>1
  <2>2. ~(Cardinality(Within[d]) < d + 1)
    BY <1>3, <2>1
  <2>3. Cardinality(Within[d]) \in Nat /\ Cardinality(Within[d]) <= TypeCount
    BY <1>1, <1>2
  <2>4. QED
    BY <1>1, <2>2, <2>3
<1>4. CASE X # {}
  <2>1. X \in SUBSET Nat
    BY <1>1
  <2>2. PICK k \in X : \A l \in X : k <= l
    BY <1>4, <2>1, LeastNatural
  <2>3. k \in 0..d /\ Cardinality(Within[k]) < k + 1
    OBVIOUS
  <2>4. k # 0
    <3>1. Cardinality({start}) = 1
      BY FS_Singleton
    <3>2. Within[0] = {start}
      BY <1>1 DEF WithinEquations
    <3>3. QED
      BY <2>3, <3>1, <3>2
  <2>5. /\ k \in 1..TypeCount /\ k \in 0..TypeCount /\ d \in k..TypeCount
        /\ k - 1 \in 0..d /\ k - 1 \in 0..TypeCount /\ k - 1 \in 0..(d - 1) /\ ~(k <= k - 1)
        /\ k \in (k - 1)..TypeCount
    BY <1>1, <2>3, <2>4
  <2>6. ~(Cardinality(Within[k - 1]) < (k - 1) + 1)
    BY <2>2, <2>5
  <2>7. Within[k - 1] \subseteq Within[k]
    BY <2>5, WithinGrows
  <2>8. Within[k - 1] # Within[k]
    <3> SUFFICES ASSUME Within[k] = Within[k - 1] PROVE FALSE
      OBVIOUS
    <3>1. Within[d] = Within[k - 1]
      BY <2>5, WithinStops
    <3>2. QED
      BY <2>5, <3>1 DEF ReachedAt
  <2>9. PICK x, y : x = Cardinality(Within[k - 1]) /\ y = Cardinality(Within[k])
    OBVIOUS
  <2>10. x \in Nat /\ y \in Nat /\ x <= y /\ x # y
    BY <1>2, <2>5, <2>7, <2>8, <2>9, FS_Subset
  <2>11. QED
    BY <1>1, <2>3, <2>5, <2>6, <2>9, <2>10
<1>5. QED
  BY <1>3, <1>4

LEMMA DistanceIs ==
  ASSUME Searchable, NEW s, NEW d, ReachedAt(s, d)
  PROVE  Distance(s) = d /\ s \in Reachable
<1>1. TypeCount \in Nat /\ WithinEquations /\ d \in 0..TypeCount /\ s \in Within[d]
      /\ \A n \in 0..(d - 1) : s \notin Within[n]
  BY TypesAreFinite, WithinIs DEF ReachedAt
<1>2. ASSUME NEW n \in 0..TypeCount, s \in Within[n], n > 0 => s \notin Within[n - 1]
      PROVE  n = d
  <2>1. CASE n < d
    BY <1>1, <1>2, <2>1
  <2>2. CASE n > d
    <3>1. n - 1 \in d..TypeCount /\ n > 0
      BY <1>1, <2>2
    <3>2. Within[d] \subseteq Within[n - 1]
      BY <1>1, <3>1, WithinGrows
    <3>3. QED
      BY <1>1, <1>2, <3>1, <3>2
  <2>3. QED
    BY <1>1, <2>1, <2>2
<1>3. d > 0 => s \notin Within[d - 1]
  BY <1>1
<1>4. Distance(s) = d
  <2> DEFINE P(n) == s \in Within[n] /\ (n > 0 => s \notin Within[n - 1])
  <2>1. DOMAIN Within = 0..TypeCount
    BY <1>1 DEF WithinEquations
  <2>2. \A n \in 0..TypeCount : P(n) <=> n = d
    BY <1>1, <1>2, <1>3
  <2> HIDE DEF P
  <2>3. (CHOOSE n \in 0..TypeCount : P(n)) = d
    BY <1>1, <2>2
  <2>4. QED
    BY <2>1, <2>3 DEF Distance, P
<1>5. s \in Reachable
  <2>1. TypeCount \in d..TypeCount
    BY <1>1
  <2>2. QED
    BY <1>1, <2>1, WithinGrows DEF Reachable, TypeCount
<1>6. QED
  BY <1>4, <1>5

\* A set with the start in it that the moves do not leave before move l holds all that
\* is within l moves.
LEMMA ClosedHoldsWithin ==
  ASSUME Searchable, NEW S, start \in S, NEW l \in 0..TypeCount,
         \A n \in 0..(l - 1) : \A s \in S : s \in Within[n] => table[s] \subseteq S
  PROVE  \A n \in 0..l : Within[n] \subseteq S
<1>1. TypeCount \in Nat /\ WithinEquations
  BY TypesAreFinite, WithinIs
<1> DEFINE X == {n \in 0..l : ~(Within[n] \subseteq S)}
<1>2. SUFFICES ASSUME X # {} PROVE FALSE
  OBVIOUS
<1>3. X \in SUBSET Nat
  BY <1>1
<1>4. PICK n \in X : \A i \in X : n <= i
  BY <1>2, <1>3, LeastNatural
<1>5. n # 0
  BY <1>1 DEF WithinEquations
<1>6. n \in 1..TypeCount /\ n - 1 \in 0..l /\ n - 1 \in 0..(l - 1) /\ ~(n <= n - 1)
  BY <1>1, <1>5
<1>7. Within[n - 1] \subseteq S
  BY <1>4, <1>6
<1>8. Within[n] = Succs(Within[n - 1])
  BY <1>1, <1>6 DEF WithinEquations
<1>9. \A s \in Within[n - 1] : table[s] \subseteq S
  BY <1>6, <1>7
<1>10. Within[n] \subseteq S
  BY <1>7, <1>8, <1>9 DEF Succs
<1>11. QED
  BY <1>10

\* The search.  What is discovered was reached at its depth, along the path kept for it;
\* the queue holds what is discovered and not expanded, in the order of the depths, at
\* most one apart; what is expanded and not at the bound has its successors discovered
\* and its forbidden moves met.
Queued == {queue[i] : i \in 1..Len(queue)}

SearchTyped ==
  /\ Searchable
  /\ depth \in (0..TypeCount) \cup {None}
  /\ queue \in Seq(StateTypes)
  /\ DOMAIN depthOf \subseteq StateTypes /\ DOMAIN pathTo = DOMAIN depthOf
  /\ start \in DOMAIN depthOf
  /\ Queued \subseteq DOMAIN depthOf
  /\ pathTo = [s \in DOMAIN pathTo |-> pathTo[s]] /\ depthOf = [s \in DOMAIN depthOf |-> depthOf[s]]

DepthsInv ==
  \A s \in DOMAIN depthOf : ReachedAt(s, depthOf[s]) /\ (depth # None => depthOf[s] <= depth)

IsPathTo(p, s, n) ==
  /\ p \in Seq(StateTypes) /\ Len(p) = n + 1 /\ p[1] = start /\ p[n + 1] = s
  /\ \A i \in 2..(n + 1) : p[i] \in table[p[i - 1]]

PathsInv == \A s \in DOMAIN depthOf : IsPathTo(pathTo[s], s, depthOf[s])

QueueInv ==
  /\ \A i, j \in 1..Len(queue) : i <= j => depthOf[queue[i]] <= depthOf[queue[j]]
  /\ \A i \in 1..Len(queue) : depthOf[queue[i]] <= depthOf[queue[1]] + 1
  /\ queue # <<>> => \A s \in DOMAIN depthOf \ Queued : depthOf[s] <= depthOf[queue[1]]

ExpandedInv ==
  \A s \in DOMAIN depthOf \ Queued :
    AtBound(s) \/ \A t \in table[s] :
                     Discovered(t) /\ (~Legal(s, t) => Append(pathTo[s], t) \in forbidden)

ForbiddenInv ==
  /\ \A p \in forbidden : \E s \in DOMAIN depthOf : \E t \in table[s] :
       p = Append(pathTo[s], t) /\ ~Legal(s, t)
  /\ truncated => depth # None

SearchInv ==
  /\ SearchTyped /\ DepthsInv /\ PathsInv /\ QueueInv /\ ExpandedInv /\ ForbiddenInv
  /\ platform # None => /\ platform \in Models /\ depth = None
                        /\ table = MappedTable(platform)

\* The search within the bound is complete: what lies within n moves has been discovered
\* if the expanded states are those of fewer moves.
LEMMA DiscoveredWithin ==
  ASSUME SearchTyped, DepthsInv, ExpandedInv, NEW l \in 0..TypeCount,
         depth # None => l <= depth,
         \A s \in DOMAIN depthOf : depthOf[s] < l => s \notin Queued
  PROVE  \A n \in 0..l : Within[n] \subseteq DOMAIN depthOf
<1>1. TypeCount \in Nat /\ Searchable /\ start \in DOMAIN depthOf
  BY TypesAreFinite DEF SearchTyped
<1>2. ASSUME NEW n \in 0..(l - 1), NEW s \in DOMAIN depthOf, s \in Within[n]
      PROVE  table[s] \subseteq DOMAIN depthOf
  <2>1. depthOf[s] \in 0..TypeCount /\ \A m \in 0..(depthOf[s] - 1) : s \notin Within[m]
    BY DEF DepthsInv, ReachedAt
  <2>2. ~(n < depthOf[s])
    BY <1>1, <1>2, <2>1
  <2>3. depthOf[s] < l /\ depthOf[s] \in Nat
    BY <1>1, <2>1, <2>2
  <2>4. ~AtBound(s)
    <3>1. depth # None => depth \in Nat
      BY <1>1 DEF SearchTyped
    <3>2. QED
      BY <1>1, <2>3, <3>1 DEF AtBound
  <2>5. s \notin Queued
    BY <2>3
  <2>6. QED
    BY <2>4, <2>5 DEF ExpandedInv, Discovered
<1>3. QED
  <2> DEFINE S == DOMAIN depthOf
  <2>1. start \in S /\ \A n \in 0..(l - 1) : \A s \in S : s \in Within[n] => table[s] \subseteq S
    BY <1>1, <1>2
  <2> HIDE DEF S
  <2>2. \A n \in 0..l : Within[n] \subseteq S
    BY <1>1, <2>1, ClosedHoldsWithin
  <2>3. QED
    BY <2>2 DEF S

\* The path kept for a state, with one of its moves appended.
EndsWithMove(p, s, t) ==
  /\ p[1] = start /\ Len(p) = depthOf[s] + 2
  /\ p[Len(p) - 1] = s /\ p[Len(p)] = t
  /\ \A i \in 2..Len(p) : p[i] \in table[p[i - 1]]

LEMMA AppendedMove ==
  ASSUME SearchTyped, DepthsInv, PathsInv, NEW s \in DOMAIN depthOf, NEW t \in table[s]
  PROVE  EndsWithMove(Append(pathTo[s], t), s, t)
<1>1. PICK n, q : n = depthOf[s] /\ q = pathTo[s]
  OBVIOUS
<1>2. n \in Nat /\ s \in StateTypes /\ t \in StateTypes
  BY <1>1 DEF DepthsInv, ReachedAt, SearchTyped, Searchable
<1>3. /\ q \in Seq(StateTypes) /\ Len(q) = n + 1 /\ q[1] = start /\ q[n + 1] = s
      /\ \A i \in 2..(n + 1) : q[i] \in table[q[i - 1]]
  BY <1>1 DEF PathsInv, IsPathTo
<1>4. PICK p : p = Append(q, t)
  OBVIOUS
<1>5. /\ Len(p) = n + 2 /\ p[n + 2] = t
      /\ \A i \in 1..(n + 1) : p[i] = q[i]
  BY <1>2, <1>3, <1>4, AppendProperties
<1>6. p[1] = start /\ p[n + 1] = s
  BY <1>2, <1>3, <1>5
<1>7. ASSUME NEW i \in 2..(n + 2)
      PROVE  p[i] \in table[p[i - 1]]
  <2>1. CASE i = n + 2
    BY <1>2, <1>5, <1>6, <2>1
  <2>2. CASE i # n + 2
    <3>1. i \in 2..(n + 1) /\ i \in 1..(n + 1) /\ i - 1 \in 1..(n + 1)
      BY <1>2, <2>2
    <3>2. QED
      BY <1>3, <1>5, <3>1
  <2>3. QED
    BY <2>1, <2>2
<1>8. (n + 2) - 1 = n + 1
  BY <1>2
<1>9. QED
  BY <1>1, <1>4, <1>5, <1>6, <1>7, <1>8 DEF EndsWithMove

LEMMA SearchHolds == ASSUME SearchInv PROVE SearchTellsTable
<1>1. /\ SearchTyped /\ DepthsInv /\ PathsInv /\ QueueInv /\ ExpandedInv /\ ForbiddenInv
      /\ Searchable /\ TypeCount \in Nat /\ None \notin Nat
  BY TypesAreFinite, SearchAssumption DEF SearchInv, SearchTyped
<1>2. \A s \in DOMAIN depthOf : s \in Reachable /\ depthOf[s] = Distance(s)
  BY <1>1, DistanceIs DEF DepthsInv
<1>3. ASSUME NEW p \in forbidden
      PROVE  /\ p[1] = start
             /\ \A i \in 2..Len(p) : p[i] \in table[p[i - 1]]
             /\ Len(p) = Distance(p[Len(p) - 1]) + 2
             /\ ~Legal(p[Len(p) - 1], p[Len(p)])
  <2>1. PICK s \in DOMAIN depthOf : \E t \in table[s] : p = Append(pathTo[s], t) /\ ~Legal(s, t)
    BY <1>1 DEF ForbiddenInv
  <2>2. PICK t \in table[s] : p = Append(pathTo[s], t) /\ ~Legal(s, t)
    BY <2>1
  <2>3. /\ p[1] = start /\ Len(p) = depthOf[s] + 2
        /\ p[Len(p) - 1] = s /\ p[Len(p)] = t
        /\ \A i \in 2..Len(p) : p[i] \in table[p[i - 1]]
    <3>1. EndsWithMove(p, s, t)
      BY <1>1, <2>2, AppendedMove
    <3>2. QED
      BY <3>1 DEF EndsWithMove
  <2>4. depthOf[s] = Distance(s)
    BY <1>2
  <2>5. QED
    BY <2>2, <2>3, <2>4
<1>4. ASSUME Explored
      PROVE  DOMAIN depthOf = IF depth = None THEN Reachable ELSE Within[depth]
  <2>1. Queued = {}
    BY <1>1, <1>4 DEF Queued, Explored
  <2>2. CASE depth = None
    <3>1. \A n \in 0..TypeCount : Within[n] \subseteq DOMAIN depthOf
      <4>1. TypeCount \in 0..TypeCount
        BY <1>1
      <4>2. QED
        BY <1>1, <2>1, <2>2, <4>1, DiscoveredWithin
    <3>2. Reachable \subseteq DOMAIN depthOf
      BY <1>1, <3>1 DEF Reachable, TypeCount
    <3>3. QED
      BY <1>2, <2>2, <3>2
  <2>3. CASE depth # None
    <3>1. depth \in 0..TypeCount
      BY <1>1, <2>3 DEF SearchTyped
    <3>2. \A n \in 0..depth : Within[n] \subseteq DOMAIN depthOf
      BY <1>1, <2>1, <3>1, DiscoveredWithin
    <3>3. Within[depth] \subseteq DOMAIN depthOf
      BY <1>1, <3>1, <3>2
    <3>4. ASSUME NEW s \in DOMAIN depthOf
          PROVE  s \in Within[depth]
      <4>1. PICK n : n = depthOf[s]
        OBVIOUS
      <4>2. n \in 0..TypeCount /\ s \in Within[n] /\ n <= depth
        BY <1>1, <2>3, <4>1 DEF DepthsInv, ReachedAt
      <4>3. depth \in n..TypeCount
        BY <1>1, <3>1, <4>2
      <4>4. QED
        BY <1>1, <4>2, <4>3, WithinGrows
    <3>5. QED
      BY <2>3, <3>3, <3>4
  <2>4. QED
    BY <2>2, <2>3
<1>5. ASSUME Explored, NEW s \in DOMAIN depthOf, NEW t \in table[s], ~AtBound(s), ~Legal(s, t)
      PROVE  \E p \in forbidden : p[Len(p) - 1] = s /\ p[Len(p)] = t
  <2>1. s \notin Queued
    BY <1>1, <1>5 DEF Queued, Explored
  <2>2. Append(pathTo[s], t) \in forbidden
    BY <1>1, <1>5, <2>1 DEF ExpandedInv
  <2>3. QED
    <3>1. EndsWithMove(Append(pathTo[s], t), s, t)
      BY <1>1, AppendedMove
    <3>2. QED
      BY <2>2, <3>1 DEF EndsWithMove
<1>6. QED
  BY <1>2, <1>3, <1>4, <1>5 DEF SearchTellsTable

LEMMA ReportHolds == ASSUME SearchInv PROVE ReportAgreesWithSearch
<1> SUFFICES ASSUME platform # None PROVE ReportAgreesWithSearch
  BY DEF ReportAgreesWithSearch
<1> DEFINE mapped(m) == <<platform.mapping[m[1]], platform.mapping[m[2]]>>
<1>1. /\ platform \in Models /\ depth = None /\ table = MappedTable(platform)
      /\ ~truncated /\ ForbiddenInv /\ SearchTyped /\ DepthsInv /\ Searchable
      /\ SearchTellsTable
  BY SearchHolds DEF SearchInv, ForbiddenInv, SearchTyped
<1>2. ASSUME NEW s \in StateTypes, NEW t
      PROVE  t \in table[s] <=> \E m \in CheckedMoves(platform) : mapped(m) = <<s, t>>
  <2>1. table[s] = {platform.mapping[m[2]] : m \in {n \in CheckedMoves(platform) : platform.mapping[n[1]] = s}}
    BY <1>1 DEF MappedTable
  <2>2. QED
    BY <2>1
<1>3. ASSUME NEW p \in forbidden
      PROVE  \E m \in IllegalMoves(platform) : mapped(m) = <<p[Len(p) - 1], p[Len(p)]>>
  <2>1. PICK s \in DOMAIN depthOf : \E t \in table[s] : p = Append(pathTo[s], t) /\ ~Legal(s, t)
    BY <1>1 DEF ForbiddenInv
  <2>2. PICK t \in table[s] : p = Append(pathTo[s], t) /\ ~Legal(s, t)
    BY <2>1
  <2>3. p[Len(p) - 1] = s /\ p[Len(p)] = t
    <3>1. EndsWithMove(p, s, t)
      BY <2>2, AppendedMove DEF SearchInv
    <3>2. QED
      BY <3>1 DEF EndsWithMove
  <2>4. PICK m \in CheckedMoves(platform) : mapped(m) = <<s, t>>
    BY <1>1, <1>2 DEF SearchTyped
  <2>5. platform.mapping[m[1]] = s /\ platform.mapping[m[2]] = t
    BY <2>4
  <2>6. m \in IllegalMoves(platform)
    BY <2>2, <2>5 DEF IllegalMoves
  <2>7. QED
    BY <2>3, <2>4, <2>6
<1>4. ASSUME Explored, NEW m \in IllegalMoves(platform), platform.mapping[m[1]] \in Reachable
      PROVE  \E p \in forbidden : mapped(m) = <<p[Len(p) - 1], p[Len(p)]>>
  <2>1. PICK s, t : mapped(m) = <<s, t>> /\ s = platform.mapping[m[1]] /\ t = platform.mapping[m[2]]
    OBVIOUS
  <2>2. m \in CheckedMoves(platform) /\ ~Legal(s, t)
    BY <2>1 DEF IllegalMoves
  <2>3. s \in DOMAIN depthOf /\ s \in StateTypes
    BY <1>1, <1>4, <2>1 DEF SearchTellsTable, SearchTyped
  <2>4. t \in table[s]
    BY <1>2, <2>1, <2>2, <2>3
  <2>5. ~AtBound(s)
    BY <1>1 DEF AtBound
  <2>6. PICK p \in forbidden : p[Len(p) - 1] = s /\ p[Len(p)] = t
    BY <1>1, <1>4, <2>2, <2>3, <2>4, <2>5 DEF SearchTellsTable
  <2>7. QED
    BY <2>1, <2>6
<1>5. ASSUME ReportedSound
      PROVE  VerdictOf = "fixpoint-sound"
  <2>1. forbidden = {}
    BY <1>3, <1>5 DEF ReportedSound
  <2>2. QED
    BY <1>1, <2>1 DEF VerdictOf
<1>6. QED
  BY <1>3, <1>4, <1>5 DEF ReportAgreesWithSearch

LEMMA SearchStarts == ASSUME SearchInit PROVE SearchInv
<1>1. TypeCount \in Nat /\ None \notin Nat
  BY TypesAreFinite, SearchAssumption
<1>2. /\ table \in [StateTypes -> SUBSET StateTypes] /\ start \in StateTypes
      /\ depth \in (0..TypeCount) \cup {None}
      /\ SearchFrom(table, start, depth)
      /\ platform # None => platform \in Models /\ depth = None /\ table = MappedTable(platform)
  <2>1. CASE VerifierInit /\ platform = None
    BY <2>1, SearchAssumption DEF VerifierInit, SearchFrom, TypeCount
  <2>2. CASE PlatformInit
    <3>1. platform \in Models /\ SearchFrom(MappedTable(platform), MappedStart(platform), None)
      BY <2>2 DEF PlatformInit
    <3>2. \A s \in DOMAIN platform.mapping : platform.mapping[s] \in StateTypes
      BY <3>1, SearchAssumption
    <3>3. MappedTable(platform) \in [StateTypes -> SUBSET StateTypes]
      <4>1. ASSUME NEW m \in CheckedMoves(platform)
            PROVE  platform.mapping[m[2]] \in StateTypes
        BY <3>2 DEF CheckedMoves, Mapped
      <4>2. QED
        BY <4>1 DEF MappedTable
    <3>4. MappedStart(platform) \in StateTypes
      <4>1. "Draft" \in StateTypes
        BY DEF StateTypes, CommitmentTransitions
      <4>2. QED
        BY <3>2, <4>1 DEF MappedStart, Mapped
    <3>5. QED
      BY <3>1, <3>3, <3>4 DEF SearchFrom
  <2>3. QED
    BY <2>1, <2>2 DEF SearchInit
<1>3. /\ queue = <<start>> /\ DOMAIN depthOf = {start} /\ depthOf[start] = 0
      /\ DOMAIN pathTo = {start} /\ pathTo[start] = <<start>>
      /\ forbidden = {} /\ truncated = FALSE
      /\ pathTo = [s \in DOMAIN pathTo |-> pathTo[s]] /\ depthOf = [s \in DOMAIN depthOf |-> depthOf[s]]
  BY <1>2 DEF SearchFrom
<1>4. Len(queue) = 1 /\ queue[1] = start /\ queue \in Seq(StateTypes)
  BY <1>2, <1>3
<1>5. Queued = {start}
  BY <1>4 DEF Queued
<1>6. Searchable /\ SearchTyped
  BY <1>2, <1>3, <1>4, <1>5 DEF Searchable, SearchTyped
<1>7. DepthsInv
  <2>1. start \in Within[0]
    BY <1>6, WithinIs DEF WithinEquations
  <2>2. 0 \in 0..TypeCount /\ ~\E n \in 0..(0 - 1) : TRUE
    BY <1>1
  <2>3. ReachedAt(start, 0)
    BY <2>1, <2>2 DEF ReachedAt
  <2>4. depth # None => 0 <= depth
    BY <1>2
  <2>5. QED
    BY <1>3, <2>3, <2>4 DEF DepthsInv
<1>8. PathsInv
  <2>1. <<start>> \in Seq(StateTypes) /\ Len(<<start>>) = 1 /\ <<start>>[1] = start
    BY <1>2
  <2>2. 0 + 1 = 1 /\ 2..1 = {}
    OBVIOUS
  <2>3. IsPathTo(<<start>>, start, 0)
    BY <2>1, <2>2 DEF IsPathTo
  <2>4. QED
    BY <1>3, <2>3 DEF PathsInv
<1>9. QueueInv
  BY <1>3, <1>4, <1>5 DEF QueueInv
<1>10. ExpandedInv /\ ForbiddenInv
  BY <1>3, <1>5 DEF ExpandedInv, ForbiddenInv
<1>11. QED
  BY <1>2, <1>6, <1>7, <1>8, <1>9, <1>10 DEF SearchInv

\* An order of a finite set lists its members and nothing else.
LEMMA OrderLists ==
  ASSUME NEW S, IsFiniteSet(S), NEW order \in SetToSeqs(S)
  PROVE  order \in Seq(S) /\ \A x : x \in S <=> \E i \in 1..Len(order) : order[i] = x
<1>1. PICK n : n = Cardinality(S)
  OBVIOUS
<1>2. n \in Nat
  BY <1>1, FS_CardinalityType
<1>3. order \in [1..n -> S] /\ \A i, j \in 1..n : i # j => order[i] # order[j]
  BY <1>1 DEF SetToSeqs
<1>4. order \in Seq(S) /\ Len(order) = n
  BY <1>2, <1>3, SeqDef
<1>5. order \in Injection(1..n, S)
  BY <1>3 DEF Injection, IsInjective
<1>6. Cardinality(1..n) = n
  BY <1>2, FS_Interval
<1>7. order \in Surjection(1..n, S)
  BY <1>1, <1>5, <1>6, FS_Injection
<1>8. QED
  BY <1>3, <1>4, <1>7 DEF Surjection

\* The queue is in order, and only its head h is expanded now that was not before.
QueueKept(h) ==
  /\ queue' \in Seq(StateTypes) /\ QueueInv'
  /\ Queued' \subseteq DOMAIN depthOf'
  /\ \A s \in DOMAIN depthOf' \ Queued' : s = h \/ s \in DOMAIN depthOf \ Queued

\* The head leaves the queue and states one move deeper join it.
LEMMA QueueKeeps ==
  ASSUME SearchTyped, DepthsInv, QueueInv, queue # <<>>,
         NEW order \in Seq(StateTypes), queue' = Tail(queue) \o order,
         NEW d, d = depthOf[queue[1]],
         \A s \in DOMAIN depthOf : depthOf'[s] = depthOf[s],
         \A i \in 1..Len(order) : depthOf'[order[i]] = d + 1,
         \A s : s \in DOMAIN depthOf' <=> s \in DOMAIN depthOf \/ \E i \in 1..Len(order) : order[i] = s
  PROVE  QueueKept(queue[1])
<1>1. PICK n, k : n = Len(queue) /\ k = Len(order)
  OBVIOUS
<1>2. /\ n \in Nat \ {0} /\ k \in Nat
      /\ Tail(queue) \in Seq(StateTypes) /\ Len(Tail(queue)) = n - 1
      /\ \A i \in 1..(n - 1) : Tail(queue)[i] = queue[i + 1]
  BY <1>1, HeadTailProperties, EmptySeq, LenProperties DEF SearchTyped
<1>3. /\ queue' \in Seq(StateTypes) /\ Len(queue') = (n - 1) + k
      /\ \A i \in 1..((n - 1) + k) : queue'[i] = IF i <= n - 1 THEN Tail(queue)[i] ELSE order[i - (n - 1)]
  BY <1>1, <1>2, ConcatProperties
<1>4. /\ \A i \in 1..n : queue[i] \in DOMAIN depthOf /\ depthOf[queue[i]] \in Nat
      /\ \A i \in 1..n : d <= depthOf[queue[i]] /\ depthOf[queue[i]] <= d + 1
      /\ d \in Nat
  <2>1. \A i \in 1..n : queue[i] \in DOMAIN depthOf
    BY <1>1 DEF SearchTyped, Queued
  <2>2. \A s \in DOMAIN depthOf : depthOf[s] \in Nat
    BY TypesAreFinite DEF DepthsInv, ReachedAt
  <2>3. 1 \in 1..n
    BY <1>2
  <2>4. QED
    BY <1>1, <1>2, <2>1, <2>2, <2>3 DEF QueueInv
<1>5. \A i \in 1..(n - 1) : queue'[i] = queue[i + 1] /\ i + 1 \in 1..n
  BY <1>2, <1>3
<1>6. \A i \in n..((n - 1) + k) : queue'[i] = order[i - (n - 1)] /\ i - (n - 1) \in 1..k
  BY <1>2, <1>3
<1> DEFINE e == [i \in 1..((n - 1) + k) |-> depthOf'[queue'[i]]]
<1>7. \A i \in 1..(n - 1) : e[i] = depthOf[queue[i + 1]] /\ queue'[i] \in DOMAIN depthOf
  <2>1. \A i \in 1..(n - 1) : i \in 1..((n - 1) + k)
    BY <1>2
  <2>2. QED
    BY <1>4, <1>5, <2>1
<1>8. \A i \in n..((n - 1) + k) : e[i] = d + 1
  <2>1. \A i \in n..((n - 1) + k) : i \in 1..((n - 1) + k)
    BY <1>2
  <2>2. QED
    BY <1>1, <1>6, <2>1
<1>9. \A i \in 1..((n - 1) + k) : i \in 1..(n - 1) \/ i \in n..((n - 1) + k)
  BY <1>2
<1> HIDE DEF e
<1>10. \A i \in 1..((n - 1) + k) : e[i] \in Nat /\ d <= e[i] /\ e[i] <= d + 1
  BY <1>4, <1>5, <1>7, <1>8, <1>9
<1>11. ASSUME NEW i \in 1..((n - 1) + k), NEW j \in 1..((n - 1) + k), i <= j
       PROVE  e[i] <= e[j]
  <2>1. CASE j \in n..((n - 1) + k)
    BY <1>4, <1>8, <1>10, <2>1
  <2>2. CASE i \in 1..(n - 1) /\ j \in 1..(n - 1)
    <3>1. depthOf[queue[i + 1]] <= depthOf[queue[j + 1]]
      <4>1. i + 1 \in 1..n /\ j + 1 \in 1..n /\ i + 1 <= j + 1
        BY <1>2, <1>11, <2>2
      <4>2. QED
        BY <1>1, <4>1 DEF QueueInv
    <3>2. QED
      BY <1>7, <2>2, <3>1
  <2>3. QED
    BY <1>2, <1>9, <1>11, <2>1, <2>2
<1>12. Queued' = {queue'[i] : i \in 1..((n - 1) + k)}
  BY <1>3 DEF Queued
<1>13. ASSUME NEW s \in DOMAIN depthOf' \ Queued'
       PROVE  s = queue[1] \/ s \in DOMAIN depthOf \ Queued
  <2>1. s \in DOMAIN depthOf
    <3>1. ASSUME NEW i \in 1..k, order[i] = s
          PROVE  s \in Queued'
      <4>1. i + (n - 1) \in n..((n - 1) + k) /\ (i + (n - 1)) - (n - 1) = i
            /\ i + (n - 1) \in 1..((n - 1) + k)
        <5>1. PICK l : l = n - 1 /\ l \in Nat /\ n = l + 1
          BY <1>2
        <5>2. i \in Nat /\ 1 <= i /\ i <= k
          BY <1>2
        <5>3. i + l \in (l + 1)..(l + k) /\ (i + l) - l = i /\ i + l \in 1..(l + k)
          BY <1>2, <5>1, <5>2
        <5>4. QED
          BY <5>1, <5>3, Zenon
      <4>2. queue'[i + (n - 1)] = s
        BY <1>6, <3>1, <4>1
      <4>3. QED
        BY <1>12, <4>1, <4>2
    <3>2. QED
      BY <1>1, <3>1
  <2>2. ASSUME NEW i \in 1..n, queue[i] = s, i # 1
        PROVE  s \in Queued'
    <3>1. i - 1 \in 1..(n - 1) /\ (i - 1) + 1 = i /\ i - 1 \in 1..((n - 1) + k)
      BY <1>2, <2>2
    <3>2. queue'[i - 1] = s
      BY <1>5, <2>2, <3>1
    <3>3. QED
      BY <1>12, <3>1, <3>2
  <2>3. s \in Queued => \E i \in 1..n : queue[i] = s
    BY <1>1 DEF Queued
  <2>4. QED
    BY <2>1, <2>2, <2>3
<1>14. Queued' \subseteq DOMAIN depthOf'
  <2>1. \A i \in 1..(n - 1) : queue'[i] \in DOMAIN depthOf'
    BY <1>7
  <2>2. \A i \in n..((n - 1) + k) : queue'[i] \in DOMAIN depthOf'
    BY <1>1, <1>6
  <2>3. QED
    BY <1>9, <1>12, <2>1, <2>2
<1>15. QueueInv'
  <2>0. \A i \in 1..((n - 1) + k) : depthOf'[queue'[i]] = e[i]
    BY DEF e
  <2>1. \A i, j \in 1..Len(queue') : i <= j => depthOf'[queue'[i]] <= depthOf'[queue'[j]]
    <3>1. \A i, j \in 1..((n - 1) + k) : i <= j => depthOf'[queue'[i]] <= depthOf'[queue'[j]]
      BY <1>11, <2>0
    <3>2. QED
      BY <1>3, <3>1
  <2>2. \A i \in 1..Len(queue') : depthOf'[queue'[i]] <= depthOf'[queue'[1]] + 1
    <3> SUFFICES ASSUME NEW i \in 1..((n - 1) + k) PROVE depthOf'[queue'[i]] <= depthOf'[queue'[1]] + 1
      BY <1>3
    <3>1. 1 \in 1..((n - 1) + k)
      BY <1>2
    <3>2. e[i] <= e[1] + 1
      BY <1>4, <1>10, <3>1
    <3>3. QED
      BY <2>0, <3>1, <3>2
  <2>3. ASSUME queue' # <<>>, NEW s \in DOMAIN depthOf' \ Queued'
        PROVE  depthOf'[s] <= depthOf'[queue'[1]]
    <3>1. 1 \in 1..((n - 1) + k)
      <4>1. Len(queue') \in Nat \ {0}
        BY <1>3, <2>3, EmptySeq
      <4>2. QED
        BY <1>3, <4>1
    <3>2. depthOf'[queue'[1]] = e[1] /\ e[1] \in Nat /\ d <= e[1]
      BY <1>10, <2>0, <3>1
    <3>3. s \in DOMAIN depthOf /\ depthOf[s] <= d /\ depthOf[s] \in Nat
      <4>1. CASE s = queue[1]
        BY <1>2, <1>4, <4>1
      <4>2. CASE s \in DOMAIN depthOf \ Queued
        <5>1. depthOf[s] \in Nat
          BY <4>2, TypesAreFinite DEF DepthsInv, ReachedAt
        <5>2. QED
          BY <4>2, <5>1 DEF QueueInv
      <4>3. QED
        BY <1>13, <4>1, <4>2
    <3>4. depthOf'[s] = depthOf[s]
      BY <3>3
    <3>5. QED
      BY <1>4, <3>2, <3>3, <3>4
  <2>4. QED
    BY <2>1, <2>2, <2>3 DEF QueueInv
<1>16. QED
  BY <1>3, <1>13, <1>14, <1>15 DEF QueueKept

LEMMA WithinStays ==
  ASSUME UNCHANGED <<table, start>>
  PROVE  /\ Within' = Within /\ \A s, d : ReachedAt(s, d)' <=> ReachedAt(s, d)
         /\ Searchable' <=> Searchable
         /\ \A p, s, n : IsPathTo(p, s, n)' <=> IsPathTo(p, s, n)
<1>1. Within' = Within
  BY DEF Within
<1>2. QED
  BY <1>1 DEF ReachedAt, Searchable, IsPathTo

LEMMA StopKeeps == ASSUME SearchInv, StopAtBound, UNCHANGED platform PROVE SearchInv'
<1>1. /\ SearchTyped /\ DepthsInv /\ PathsInv /\ QueueInv /\ ExpandedInv /\ ForbiddenInv
      /\ TypeCount \in Nat /\ None \notin Nat
  BY TypesAreFinite, SearchAssumption DEF SearchInv, SearchTyped
<1>2. /\ queue # <<>> /\ AtBound(Head(queue)) /\ queue' = Tail(queue)
      /\ UNCHANGED <<table, start, depth, depthOf, pathTo, forbidden, platform>>
  BY DEF StopAtBound
<1>3. Head(queue) = queue[1] /\ Tail(queue) = Tail(queue) \o <<>> /\ <<>> \in Seq(StateTypes)
  <2>1. Tail(queue) \in Seq(StateTypes)
    BY <1>1, <1>2, HeadTailProperties DEF SearchTyped
  <2>2. QED
    BY <1>1, <1>2, <2>1, ConcatEmptySeq, EmptySeq DEF SearchTyped
<1>4. QueueKept(queue[1])
  <2>1. PICK d : d = depthOf[queue[1]]
    OBVIOUS
  <2>2. PICK order : order = <<>>
    OBVIOUS
  <2>3. order \in Seq(StateTypes) /\ queue' = Tail(queue) \o order
    BY <1>2, <1>3, <2>2
  <2>4. /\ \A s \in DOMAIN depthOf : depthOf'[s] = depthOf[s]
        /\ \A i \in 1..Len(order) : depthOf'[order[i]] = d + 1
        /\ \A s : s \in DOMAIN depthOf' <=> s \in DOMAIN depthOf \/ \E i \in 1..Len(order) : order[i] = s
    BY <1>2, <2>2
  <2>5. QED
    BY <1>1, <1>2, <2>1, <2>3, <2>4, QueueKeeps
<1>5. SearchTyped'
  <2>1. Searchable'
    BY <1>1, <1>2, WithinStays DEF SearchTyped
  <2>2. QED
    BY <1>1, <1>2, <1>4, <2>1 DEF SearchTyped, QueueKept
<1>6. DepthsInv' /\ PathsInv'
  BY <1>1, <1>2, WithinStays DEF DepthsInv, PathsInv
<1>7. ExpandedInv'
  <2>1. \A s : AtBound(s)' <=> AtBound(s)
    BY <1>2 DEF AtBound
  <2>2. QED
    BY <1>1, <1>2, <1>3, <1>4, <2>1 DEF ExpandedInv, Discovered, QueueKept
<1>8. ForbiddenInv'
  <2>1. depth # None
    BY <1>2 DEF AtBound
  <2>2. QED
    BY <1>1, <1>2, <2>1 DEF ForbiddenInv
<1>9. QED
  BY <1>2, <1>4, <1>5, <1>6, <1>7, <1>8 DEF SearchInv, QueueKept

LEMMA ExpandKeeps == ASSUME SearchInv, Expand, UNCHANGED platform PROVE SearchInv'
<1>1. /\ SearchTyped /\ DepthsInv /\ PathsInv /\ QueueInv /\ ExpandedInv /\ ForbiddenInv
      /\ Searchable /\ TypeCount \in Nat /\ None \notin Nat /\ IsFiniteSet(StateTypes)
  BY TypesAreFinite, SearchAssumption DEF SearchInv, SearchTyped
<1>2. PICK h, new, d : h = queue[1] /\ new = NewFrom(h) /\ d = depthOf[h]
  OBVIOUS
<1>3. Head(queue) = h /\ queue # <<>>
  BY <1>1, <1>2 DEF Expand, SearchTyped
<1>4. PICK order \in SetToSeqs(new) : queue' = Tail(queue) \o order
  BY <1>2, <1>3 DEF Expand, Enqueue
<1>5. /\ ~AtBound(h)
      /\ UNCHANGED <<table, start, depth, truncated, platform>>
      /\ forbidden' = forbidden \cup {Append(pathTo[h], t) : t \in ForbiddenFrom(h)}
      /\ depthOf' = [t \in DOMAIN depthOf \cup new |-> IF t \in new THEN d + 1 ELSE depthOf[t]]
      /\ pathTo' = [t \in DOMAIN pathTo \cup new |->
                     IF t \in new THEN Append(pathTo[h], t) ELSE pathTo[t]]
  BY <1>2, <1>3 DEF Expand
<1>6. /\ h \in DOMAIN depthOf /\ h \in StateTypes /\ ReachedAt(h, d) /\ d \in Nat
      /\ IsPathTo(pathTo[h], h, d)
  <2>1. 1 \in 1..Len(queue)
    BY <1>1, <1>3, EmptySeq DEF SearchTyped
  <2>2. h \in DOMAIN depthOf /\ h \in StateTypes
    BY <1>1, <1>2, <2>1 DEF SearchTyped, Queued
  <2>3. QED
    BY <1>1, <1>2, <2>2 DEF DepthsInv, ReachedAt, PathsInv
<1>7. /\ new \subseteq StateTypes /\ IsFiniteSet(new)
      /\ \A t : t \in new <=> t \in table[h] /\ t \notin DOMAIN depthOf
  <2>1. \A t : t \in new <=> t \in table[h] /\ t \notin DOMAIN depthOf
    BY <1>2 DEF NewFrom, Discovered
  <2>2. new \subseteq StateTypes
    BY <1>1, <1>6, <2>1 DEF Searchable
  <2>3. QED
    BY <1>1, <2>1, <2>2, FS_Subset
<1>8. /\ order \in Seq(StateTypes)
      /\ \A x : x \in new <=> \E i \in 1..Len(order) : order[i] = x
  <2>1. order \in Seq(new) /\ \A x : x \in new <=> \E i \in 1..Len(order) : order[i] = x
    BY <1>4, <1>7, OrderLists
  <2>2. order \in Seq(StateTypes)
    BY <1>7, <2>1, SeqMonotonic
  <2>3. QED
    BY <2>1, <2>2
<1>9. /\ DOMAIN depthOf' = DOMAIN depthOf \cup new /\ DOMAIN pathTo' = DOMAIN depthOf \cup new
      /\ \A s \in DOMAIN depthOf : depthOf'[s] = depthOf[s] /\ pathTo'[s] = pathTo[s]
      /\ \A t \in new : depthOf'[t] = d + 1 /\ pathTo'[t] = Append(pathTo[h], t)
      /\ pathTo' = [s \in DOMAIN pathTo' |-> pathTo'[s]] /\ depthOf' = [s \in DOMAIN depthOf' |-> depthOf'[s]]
  <2>1. DOMAIN pathTo = DOMAIN depthOf /\ \A s \in DOMAIN depthOf : s \notin new
    BY <1>1, <1>7 DEF SearchTyped
  <2>2. QED
    BY <1>5, <2>1
<1>10. /\ queue' \in Seq(StateTypes) /\ QueueInv'
       /\ Queued' \subseteq DOMAIN depthOf'
       /\ \A s \in DOMAIN depthOf' \ Queued' : s = h \/ s \in DOMAIN depthOf \ Queued
  <2>1. d = depthOf[queue[1]] /\ \A s \in DOMAIN depthOf : depthOf'[s] = depthOf[s]
    BY <1>2, <1>9
  <2>2. \A i \in 1..Len(order) : depthOf'[order[i]] = d + 1
    BY <1>8, <1>9
  <2>3. \A s : s \in DOMAIN depthOf' <=> s \in DOMAIN depthOf \/ \E i \in 1..Len(order) : order[i] = s
    BY <1>8, <1>9
  <2>4. QueueKept(queue[1])
    <3>1. SearchTyped /\ DepthsInv /\ QueueInv /\ queue # <<>>
      BY <1>1, <1>3
    <3>2. order \in Seq(StateTypes) /\ queue' = Tail(queue) \o order
      BY <1>4, <1>8
    <3>3. QED
      BY <2>1, <2>2, <2>3, <3>1, <3>2, QueueKeeps, Zenon
  <2>5. QED
    BY <1>2, <2>4 DEF QueueKept
<1>11. SearchTyped'
  <2>1. Searchable'
    BY <1>1, <1>5, WithinStays
  <2>2. DOMAIN depthOf' \subseteq StateTypes /\ start' \in DOMAIN depthOf'
        /\ depth' \in (0..TypeCount) \cup {None}
    BY <1>1, <1>5, <1>7, <1>9 DEF SearchTyped
  <2>3. QED
    BY <1>9, <1>10, <2>1, <2>2 DEF SearchTyped
<1>12. ASSUME NEW t \in new
       PROVE  ReachedAt(t, d + 1) /\ (depth # None => d + 1 <= depth)
  <2>1. d < TypeCount /\ d \in 0..TypeCount /\ h \in Within[d]
    BY <1>1, <1>6, ReachedBelowCount DEF ReachedAt
  <2>2. d + 1 \in 1..TypeCount /\ d + 1 \in 0..TypeCount /\ (d + 1) - 1 = d
    BY <1>1, <1>6, <2>1
  <2>3. t \in Within[d + 1]
    <3>1. Within[d + 1] = Succs(Within[d])
      BY <1>1, <2>2, WithinIs DEF WithinEquations
    <3>2. QED
      BY <1>7, <2>1, <3>1 DEF Succs
  <2>4. \A s \in DOMAIN depthOf : depthOf[s] < d => s \notin Queued
    <3> SUFFICES ASSUME NEW i \in 1..Len(queue), depthOf[queue[i]] < d PROVE FALSE
      BY DEF Queued
    <3>1. 1 \in 1..Len(queue) /\ 1 <= i
      BY <1>1, LenProperties DEF SearchTyped
    <3>2. d <= depthOf[queue[i]]
      BY <1>1, <1>2, <3>1 DEF QueueInv
    <3>3. depthOf[queue[i]] \in Nat
      BY <1>1 DEF SearchTyped, Queued, DepthsInv, ReachedAt
    <3>4. QED
      BY <1>6, <3>2, <3>3
  <2>5. depth # None => d <= depth
    BY <1>1, <1>2, <1>6 DEF DepthsInv
  <2>6. \A n \in 0..d : Within[n] \subseteq DOMAIN depthOf
    BY <1>1, <2>1, <2>4, <2>5, DiscoveredWithin
  <2>7. \A n \in 0..((d + 1) - 1) : t \notin Within[n]
    BY <1>7, <2>2, <2>6
  <2>8. depth # None => d + 1 <= depth
    <3> SUFFICES ASSUME depth # None PROVE d + 1 <= depth
      OBVIOUS
    <3>1. depth \in Nat /\ ~(d >= depth)
      BY <1>1, <1>2, <1>5 DEF SearchTyped, AtBound
    <3>2. QED
      BY <1>6, <3>1
  <2>9. QED
    BY <2>2, <2>3, <2>7, <2>8 DEF ReachedAt
<1>13. DepthsInv'
  <2> SUFFICES ASSUME NEW s \in DOMAIN depthOf'
               PROVE  ReachedAt(s, depthOf[s])' /\ (depth' # None => depthOf'[s] <= depth')
    BY DEF DepthsInv
  <2>1. PICK n : n = depthOf'[s]
    OBVIOUS
  <2>2. ReachedAt(s, n) /\ (depth # None => n <= depth)
    <3>1. CASE s \in new
      BY <1>9, <1>12, <2>1, <3>1
    <3>2. CASE s \in DOMAIN depthOf
      BY <1>1, <1>9, <2>1, <3>2 DEF DepthsInv
    <3>3. QED
      BY <1>9, <3>1, <3>2
  <2>3. ReachedAt(s, n)'
    BY <1>5, <2>2, WithinStays
  <2>4. QED
    BY <1>5, <2>1, <2>2, <2>3 DEF ReachedAt
<1>14. PathsInv'
  <2> SUFFICES ASSUME NEW s \in DOMAIN depthOf'
               PROVE  IsPathTo(pathTo[s], s, depthOf[s])'
    BY DEF PathsInv
  <2>1. PICK n, p : n = depthOf'[s] /\ p = pathTo'[s]
    OBVIOUS
  <2>2. IsPathTo(p, s, n)
    <3>1. CASE s \in new
      <4>1. p = Append(pathTo[h], s) /\ n = d + 1 /\ s \in table[h] /\ s \in StateTypes
        BY <1>7, <1>9, <2>1, <3>1
      <4>2. p[1] = start /\ Len(p) = d + 2 /\ p[Len(p)] = s /\ \A i \in 2..Len(p) : p[i] \in table[p[i - 1]]
        <5>1. SearchTyped /\ DepthsInv /\ PathsInv /\ h \in DOMAIN depthOf /\ depthOf[h] = d
          BY <1>1, <1>2, <1>6
        <5>2. EndsWithMove(p, h, s)
          BY <4>1, <5>1, AppendedMove
        <5>3. QED
          BY <5>1, <5>2 DEF EndsWithMove
      <4>3. p \in Seq(StateTypes)
        BY <1>6, <4>1, AppendProperties DEF IsPathTo
      <4>4. n + 1 = d + 2
        BY <1>6, <4>1
      <4>5. QED
        BY <4>2, <4>3, <4>4 DEF IsPathTo
    <3>2. CASE s \in DOMAIN depthOf
      BY <1>1, <1>9, <2>1, <3>2 DEF PathsInv
    <3>3. QED
      BY <1>9, <3>1, <3>2
  <2>3. IsPathTo(p, s, n)'
    BY <1>5, <2>2, WithinStays
  <2>4. QED
    BY <2>1, <2>3 DEF IsPathTo
<1>15. ExpandedInv'
  <2> SUFFICES ASSUME NEW s \in DOMAIN depthOf' \ Queued'
               PROVE  AtBound(s)' \/ \A t \in table'[s] :
                        Discovered(t)' /\ (~Legal(s, t) => Append(pathTo'[s], t) \in forbidden')
    BY DEF ExpandedInv, Legal
  <2>1. s \in DOMAIN depthOf /\ pathTo'[s] = pathTo[s] /\ depthOf'[s] = depthOf[s]
    BY <1>6, <1>9, <1>10
  <2>2. CASE s = h
    <3>1. ASSUME NEW t \in table[h] PROVE t \in DOMAIN depthOf'
      BY <1>7, <1>9
    <3>2. ASSUME NEW t \in table[h], ~Legal(h, t) PROVE Append(pathTo[h], t) \in forbidden'
      BY <1>5, <3>2 DEF ForbiddenFrom
    <3>3. QED
      BY <1>5, <2>1, <2>2, <3>1, <3>2 DEF Discovered
  <2>3. CASE s \in DOMAIN depthOf \ Queued
    <3>1. CASE AtBound(s)
      BY <1>5, <2>1, <3>1 DEF AtBound
    <3>2. CASE ~AtBound(s)
      <4>1. \A t \in table[s] : t \in DOMAIN depthOf /\ (~Legal(s, t) => Append(pathTo[s], t) \in forbidden)
        BY <1>1, <2>3, <3>2 DEF ExpandedInv, Discovered
      <4>2. QED
        BY <1>5, <1>9, <2>1, <4>1 DEF Discovered
    <3>3. QED
      BY <3>1, <3>2
  <2>4. QED
    BY <1>10, <2>2, <2>3
<1>16. ForbiddenInv'
  <2>1. ASSUME NEW p \in forbidden'
        PROVE  \E s \in DOMAIN depthOf' : \E t \in table'[s] : p = Append(pathTo'[s], t) /\ ~Legal(s, t)
    <3>1. CASE p \in forbidden
      <4>1. PICK s \in DOMAIN depthOf : \E t \in table[s] : p = Append(pathTo[s], t) /\ ~Legal(s, t)
        BY <1>1, <3>1 DEF ForbiddenInv
      <4>2. QED
        BY <1>5, <1>9, <4>1
    <3>2. CASE p \notin forbidden
      <4>1. PICK t \in ForbiddenFrom(h) : p = Append(pathTo[h], t)
        BY <1>5, <3>2
      <4>2. t \in table[h] /\ ~Legal(h, t)
        BY DEF ForbiddenFrom
      <4>3. QED
        BY <1>5, <1>6, <1>9, <4>1, <4>2
    <3>3. QED
      BY <3>1, <3>2
  <2>2. truncated' => depth' # None
    BY <1>1, <1>5 DEF ForbiddenInv
  <2>3. QED
    BY <2>1, <2>2 DEF ForbiddenInv, Legal
<1>17. platform' # None => /\ platform' \in Models /\ depth' = None
                           /\ table' = MappedTable(platform')
  BY <1>5 DEF SearchInv
<1>18. QED
  BY <1>10, <1>11, <1>13, <1>14, <1>15, <1>16, <1>17 DEF SearchInv

LEMMA SearchSteps == SearchInv /\ [PlatformNext]_platformVars => SearchInv'
<1> SUFFICES ASSUME SearchInv, [PlatformNext]_platformVars PROVE SearchInv'
  OBVIOUS
<1>1. CASE UNCHANGED platformVars
  <2>1. /\ UNCHANGED <<table, start, depth, queue, depthOf, pathTo, forbidden, truncated, platform>>
    BY <1>1 DEF platformVars, verifierVars
  <2>2. /\ Within' = Within /\ \A s, d : ReachedAt(s, d)' <=> ReachedAt(s, d)
        /\ Searchable' <=> Searchable
        /\ \A p, s, n : IsPathTo(p, s, n)' <=> IsPathTo(p, s, n)
    BY <2>1, WithinStays
  <2>3. SearchTyped' /\ DepthsInv' /\ PathsInv'
    BY <2>1, <2>2 DEF SearchInv, SearchTyped, DepthsInv, PathsInv, Queued
  <2>4. QueueInv' /\ ExpandedInv' /\ ForbiddenInv'
    BY <2>1 DEF SearchInv, QueueInv, ExpandedInv, ForbiddenInv, Queued, AtBound, Discovered
  <2>5. QED
    BY <2>1, <2>3, <2>4 DEF SearchInv
<1>2. CASE PlatformNext
  BY <1>2, StopKeeps, ExpandKeeps DEF PlatformNext, VerifierNext
<1>3. QED
  BY <1>1, <1>2

\* Either caller of verifyLifecycle is told the truth, whatever the table or the platform's
\* model: a breadth-first search with a bound, seen a turn at a time.
THEOREM SearchesTellTrue == SearchSpec => []SearchesAgree
<1>1. SearchInv => SearchesAgree
  BY SearchHolds, ReportHolds DEF SearchesAgree
<1>2. QED
  BY <1>1, SearchStarts, SearchSteps, PTL DEF SearchSpec

\* "fixpoint-sound" means what verify.ts says it does when the search had no bound.
THEOREM FixpointWithoutBound == SearchSpec => [](depth = None => FixpointIsSound)
<1>1. SearchInv => (depth = None => FixpointIsSound)
  <2> SUFFICES ASSUME SearchInv, depth = None, Explored, VerdictOf = "fixpoint-sound"
               PROVE  /\ DOMAIN depthOf = Reachable
                      /\ \A s \in Reachable : \A t \in table[s] : Legal(s, t)
    BY DEF FixpointIsSound
  <2>1. forbidden = {}
    BY DEF VerdictOf
  <2>2. SearchTellsTable
    BY SearchHolds
  <2>3. DOMAIN depthOf = Reachable
    BY <2>2 DEF SearchTellsTable
  <2>4. ASSUME NEW s \in DOMAIN depthOf, NEW t \in table[s], ~Legal(s, t)
        PROVE  FALSE
    <3>1. ~AtBound(s)
      BY DEF AtBound
    <3>2. QED
      BY <2>1, <2>2, <2>4, <3>1 DEF SearchTellsTable
  <2>5. QED
    BY <2>3, <2>4
<1>2. QED
  BY <1>1, SearchStarts, SearchSteps, PTL DEF SearchSpec

-----------------------------------------------------------------------------
(* Adapters and builder.  A synthesis that the clock never interrupts has gone, after  *)
(* i steps, to the i-th waypoint of the canonical path; that fixes the one table of     *)
(* results there is.  What is mapped, moved and emitted keeps the order and the         *)
(* platform's record in step with each other.                                           *)

\* The state a synthesis is in after i steps, and what it has brought about by then.
Waypoint(goal, i) ==
  IF i = 0 THEN Plain("Draft")
  ELSE IF i = Len(CommitmentPath[goal.type]) THEN goal ELSE Plain(CommitmentPath[goal.type][i])

Travelled(goal, actor, at, i) ==
  [state   |-> Waypoint(goal, i),
   history |-> [j \in 1..i |-> [from |-> Waypoint(goal, j - 1), to |-> Waypoint(goal, j),
                                at |-> at[j], actor |-> actor]]]

\* The clock's first n readings.
Stamps(at, n) == \A i \in 1..n : at[i] \in Nat

LEMMA WaypointTypes ==
  ASSUME NEW goal \in States, NEW n, n = Len(CommitmentPath[goal.type])
  PROVE  /\ n \in Nat
         /\ \A i \in 0..n : Waypoint(goal, i) \in States
         /\ Waypoint(goal, n) = goal
         /\ \A i \in 1..n : Waypoint(goal, i).type \in CommitmentTransitions[Waypoint(goal, i - 1).type]
<1> DEFINE path == CommitmentPath[goal.type]
<1>1. /\ n \in Nat /\ path \in Seq(StateTypes) /\ goal.type \in StateTypes
      /\ (goal.type = "Draft") <=> (n = 0)
      /\ \A i \in 1..(n - 1) : path[i] # "Refunded"
  BY CommitmentPathType DEF States
<1>2. ASSUME NEW i \in 0..n PROVE Waypoint(goal, i) \in States
  <2>1. "Draft" \in StateTypes
    BY DEF StateTypes, CommitmentTransitions
  <2>2. i \in 1..(n - 1) => path[i] \in StateTypes /\ path[i] # "Refunded"
    BY <1>1
  <2>3. QED
    BY <1>1, <2>1, <2>2, PlainIsState DEF Waypoint
<1>3. Waypoint(goal, n) = goal
  <2>1. n = 0 => goal = Plain("Draft")
    BY <1>1 DEF States, Plain
  <2>2. QED
    BY <1>1, <2>1 DEF Waypoint
<1>4. /\ \A i \in 1..n : path[i] \in CommitmentTransitions[IF i = 1 THEN "Draft" ELSE path[i - 1]]
      /\ n # 0 => path[n] = goal.type
  <2>1. path # <<>> <=> n # 0
    BY <1>1, EmptySeq
  <2>2. QED
    BY <1>1, <2>1, PathsAreLegal
<1> HIDE DEF path
<1>5. Waypoint(goal, 0).type = "Draft" /\ \A i \in 1..n : Waypoint(goal, i).type = path[i]
  BY <1>1, <1>4 DEF Waypoint, Plain, path
<1>6. ASSUME NEW i \in 1..n
      PROVE  Waypoint(goal, i).type \in CommitmentTransitions[Waypoint(goal, i - 1).type]
  <2>1. Waypoint(goal, i - 1).type = IF i = 1 THEN "Draft" ELSE path[i - 1]
    <3>1. CASE i = 1
      BY <1>5, <3>1
    <3>2. CASE i # 1
      <4>1. i - 1 \in 1..n
        BY <1>1, <3>2
      <4>2. QED
        BY <1>5, <3>2, <4>1
    <3>3. QED
      BY <3>1, <3>2
  <2>2. QED
    BY <1>4, <1>5, <2>1
<1>7. QED
  BY <1>1, <1>2, <1>3, <1>6

LEMMA TravelledType ==
  ASSUME NEW goal \in States, NEW actor \in Actors, NEW n, n = Len(CommitmentPath[goal.type]),
         NEW at, Stamps(at, n), NEW i \in 0..n,
         NEW c, c = Travelled(goal, actor, at, i)
  PROVE  /\ c \in Commitment /\ c.state = Waypoint(goal, i) /\ Len(c.history) = i
         /\ DOMAIN c.history = 1..i
         /\ \A j \in 1..i : c.history[j] = [from |-> Waypoint(goal, j - 1), to |-> Waypoint(goal, j),
                                            at |-> at[j], actor |-> actor]
<1> DEFINE e(j) == [from |-> Waypoint(goal, j - 1), to |-> Waypoint(goal, j),
                    at |-> at[j], actor |-> actor]
           h == [j \in 1..i |-> e(j)]
<1>1. n \in Nat /\ i \in Nat /\ \A j \in 0..n : Waypoint(goal, j) \in States
  BY WaypointTypes
<1>2. \A j \in 1..i : e(j) \in Entry
  BY <1>1 DEF Entry, Stamps
<1>3. c = [state |-> Waypoint(goal, i), history |-> h]
  BY DEF Travelled
<1> HIDE DEF e
<1>4. h \in Seq(Entry) /\ Len(h) = i
  <2>1. h \in Seq(Entry)
    BY <1>1, <1>2, IsASeq
  <2>2. QED
    BY <1>1, <2>1, LenProperties
<1>5. c \in Commitment /\ c.state = Waypoint(goal, i) /\ Len(c.history) = i /\ DOMAIN c.history = 1..i
      /\ \A j \in 1..i : c.history[j] = e(j)
  BY <1>1, <1>3, <1>4 DEF Commitment
<1>6. QED
  BY <1>5 DEF e

\* One step more, as long as the clock has not run backwards.
LEMMA TravelsOn ==
  ASSUME NEW goal \in States, NEW actor \in Actors, NEW n, n = Len(CommitmentPath[goal.type]),
         NEW at, Stamps(at, n), NEW i \in 1..n,
         NEW c, c = Travelled(goal, actor, at, i - 1)
  PROVE  /\ TransitionOk(c, Waypoint(goal, i), at[i]) <=> (i > 1 => at[i] >= at[i - 1])
         /\ Transitioned(c, Waypoint(goal, i), actor, at[i]) = Travelled(goal, actor, at, i)
<1> DEFINE e(j) == [from |-> Waypoint(goal, j - 1), to |-> Waypoint(goal, j),
                    at |-> at[j], actor |-> actor]
<1>0. n \in Nat /\ i - 1 \in 0..n /\ i \in 0..n
  BY WaypointTypes
<1>1. /\ c \in Commitment /\ c.state = Waypoint(goal, i - 1) /\ Len(c.history) = i - 1
      /\ \A j \in 1..(i - 1) : c.history[j] = e(j)
  BY <1>0, TravelledType
<1>2. IsValidCommitmentTransition(c.state, Waypoint(goal, i))
  BY <1>1, WaypointTypes DEF IsValidCommitmentTransition
<1>3. ASSUME i > 1 PROVE LastAt(c) = at[i - 1]
  <2>1. i - 1 \in 1..(i - 1) /\ c.history # <<>>
    BY <1>0, <1>1, <1>3
  <2>2. c.history[Len(c.history)] = e(i - 1)
    BY <1>1, <2>1
  <2>3. QED
    BY <2>1, <2>2 DEF LastAt
<1>4. ~(i > 1) => LastAt(c) = 0
  <2>1. ~(i > 1) => c.history = <<>>
    BY <1>0, <1>1, EmptySeq DEF Commitment
  <2>2. QED
    BY <2>1 DEF LastAt
<1>5. TransitionOk(c, Waypoint(goal, i), at[i]) <=> (i > 1 => at[i] >= at[i - 1])
  <2>1. at[i] \in Nat
    BY DEF Stamps
  <2>2. QED
    BY <1>2, <1>3, <1>4, <2>1 DEF TransitionOk
<1>6. Transitioned(c, Waypoint(goal, i), actor, at[i]) = Travelled(goal, actor, at, i)
  <2> DEFINE d == Transitioned(c, Waypoint(goal, i), actor, at[i])
             u == Travelled(goal, actor, at, i)
  <2>1. Waypoint(goal, i) \in States /\ at[i] \in Nat
    BY <1>0, WaypointTypes DEF Stamps
  <2>2. /\ d \in Commitment /\ d.state = Waypoint(goal, i) /\ Len(d.history) = i
        /\ \A j \in 1..(i - 1) : d.history[j] = e(j)
        /\ d.history[i] = e(i)
    <3>1. /\ d \in Commitment /\ d.state = Waypoint(goal, i) /\ Len(d.history) = (i - 1) + 1
          /\ \A j \in 1..(i - 1) : d.history[j] = c.history[j]
          /\ d.history[(i - 1) + 1] = [from |-> c.state, to |-> Waypoint(goal, i), at |-> at[i], actor |-> actor]
      BY <1>1, <2>1, TransitionedType, TransitionedEntries
    <3>2. QED
      BY <1>0, <1>1, <3>1
  <2>3. /\ u \in Commitment /\ u.state = Waypoint(goal, i) /\ Len(u.history) = i
        /\ \A j \in 1..i : u.history[j] = e(j)
    BY <1>0, TravelledType
  <2> HIDE DEF d, u, e
  <2>4. d.history = u.history
    <3>1. d.history \in Seq(Entry) /\ u.history \in Seq(Entry)
      BY <2>2, <2>3 DEF Commitment
    <3>2. \A j \in 1..Len(d.history) : d.history[j] = u.history[j]
      BY <1>0, <2>2, <2>3
    <3>3. QED
      BY <2>2, <2>3, <3>1, <3>2, SeqEqual
  <2>5. d = u
    BY <2>2, <2>3, <2>4 DEF Commitment
  <2>6. QED
    BY <2>5 DEF d, u
<1>7. QED
  BY <1>5, <1>6

\* What applyCommitmentPath answers: the whole path if the clock never ran backwards on it,
\* the bare state otherwise.
LEMMA PathApplied ==
  ASSUME NEW goal \in States, NEW actor \in Actors, NEW n, n = Len(CommitmentPath[goal.type]),
         NEW at, Stamps(at, n), None \notin Commitment,
         NEW forward, forward = \A i \in 2..n : at[i] >= at[i - 1]
  PROVE  ApplyCommitmentPath(goal, actor, at) =
           IF forward THEN Travelled(goal, actor, at, n) ELSE [state |-> goal, history |-> <<>>]
<1> DEFINE path == CommitmentPath[goal.type]
           step(c, i) == IF TransitionOk(c, Waypoint(goal, i), at[i])
                         THEN Transitioned(c, Waypoint(goal, i), actor, at[i]) ELSE None
           value(g, i) == IF i = 0 THEN Draft ELSE IF g[i - 1] = None THEN None ELSE step(g[i - 1], i)
           Right(g) == g = [i \in 0..n |-> value(g, i)]
           so(i) == \A j \in 2..i : at[j] >= at[j - 1]
           there(i) == IF so(i) THEN Travelled(goal, actor, at, i) ELSE None
           after == CHOOSE g : Right(g)
<1>1. n \in Nat /\ \A i \in 0..n : Waypoint(goal, i) \in States
  BY WaypointTypes
<1>2. there(0) = Draft
  BY DEF Travelled, Waypoint, Draft
<1>3. ASSUME NEW i \in 1..n, NEW g, g[i - 1] = there(i - 1) PROVE value(g, i) = there(i)
  <2>1. so(i) <=> so(i - 1) /\ (i > 1 => at[i] >= at[i - 1])
    <3>1. \A j : j \in 2..i <=> j \in 2..(i - 1) \/ (i > 1 /\ j = i)
      BY <1>1
    <3>2. QED
      BY <3>1
  <2>2. i # 0
    BY <1>1
  <2>3. CASE ~so(i - 1)
    BY <1>3, <2>1, <2>2, <2>3
  <2>4. CASE so(i - 1)
    <3> PICK c : c = Travelled(goal, actor, at, i - 1)
      OBVIOUS
    <3>1. c \in Commitment
      <4>1. i - 1 \in 0..n
        BY <1>1
      <4>2. QED
        BY <4>1, TravelledType
    <3>2. g[i - 1] = c /\ c # None
      BY <1>3, <2>4, <3>1
    <3>3. value(g, i) = step(c, i)
      BY <2>2, <3>2
    <3>4. /\ TransitionOk(c, Waypoint(goal, i), at[i]) <=> (i > 1 => at[i] >= at[i - 1])
          /\ Transitioned(c, Waypoint(goal, i), actor, at[i]) = Travelled(goal, actor, at, i)
      BY TravelsOn
    <3> HIDE DEF value, so
    <3>5. QED
      BY <2>1, <2>4, <3>3, <3>4
  <2>5. QED
    BY <2>3, <2>4
<1> HIDE DEF there, step
<1>4. \E g : Right(g)
  <2> DEFINE g == [i \in 0..n |-> there(i)]
  <2>1. ASSUME NEW i \in 0..n PROVE g[i] = value(g, i)
    <3>1. CASE i = 0
      BY <1>2, <3>1
    <3>2. CASE i # 0
      <4>1. i \in 1..n /\ i - 1 \in 0..n
        BY <1>1, <3>2
      <4>2. g[i - 1] = there(i - 1) /\ g[i] = there(i)
        BY <4>1
      <4> HIDE DEF g, value
      <4>3. QED
        BY <1>3, <4>1, <4>2
    <3>3. QED
      BY <3>1, <3>2
  <2>2. g = [i \in 0..n |-> g[i]]
    OBVIOUS
  <2> HIDE DEF g, value
  <2>3. QED
    BY <2>1, <2>2
<1>5. Right(after)
  <2> HIDE DEF Right
  <2>1. QED
    BY <1>4
<1> HIDE DEF after
<1>6. \A i \in 0..n : after[i] = value(after, i)
  BY <1>5
<1>7. \A i \in 0..n : after[i] = there(i)
  <2> DEFINE bad == {i \in 0..n : after[i] # there(i)}
  <2>1. SUFFICES ASSUME bad # {} PROVE FALSE
    OBVIOUS
  <2>2. PICK i \in bad : \A k \in bad : i <= k
    <3>1. bad \in SUBSET Nat
      OBVIOUS
    <3> HIDE DEF bad
    <3>2. QED
      BY <2>1, <3>1, LeastNatural
  <2>3. i \in 0..n /\ after[i] # there(i)
    OBVIOUS
  <2>4. i # 0
    BY <1>2, <1>6, <2>3
  <2>5. i \in 1..n /\ i - 1 \in 0..n /\ ~(i <= i - 1)
    BY <1>1, <2>3, <2>4
  <2>6. after[i - 1] = there(i - 1)
    BY <2>2, <2>5
  <2> HIDE DEF value, bad
  <2>7. QED
    BY <1>3, <1>6, <2>3, <2>5, <2>6
<1>8. Travelled(goal, actor, at, n) # None
  <2> PICK c : c = Travelled(goal, actor, at, n)
    OBVIOUS
  <2>1. n \in 0..n
    BY <1>1
  <2>2. c \in Commitment
    BY <2>1, TravelledType
  <2>3. QED
    BY <2>2
<1>9. ApplyCommitmentPath(goal, actor, at) =
        IF after[n] = None THEN [Draft EXCEPT !.state = goal] ELSE after[n]
  <2>1. after = CHOOSE g : g = [i \in 0..n |->
                 IF i = 0 THEN Draft ELSE IF g[i - 1] = None THEN None
                 ELSE IF TransitionOk(g[i - 1], IF i = n THEN goal ELSE Plain(path[i]), at[i])
                      THEN Transitioned(g[i - 1], IF i = n THEN goal ELSE Plain(path[i]), actor, at[i])
                      ELSE None]
    <3>1. ASSUME NEW g
          PROVE  [i \in 0..n |-> value(g, i)] = [i \in 0..n |->
                 IF i = 0 THEN Draft ELSE IF g[i - 1] = None THEN None
                 ELSE IF TransitionOk(g[i - 1], IF i = n THEN goal ELSE Plain(path[i]), at[i])
                      THEN Transitioned(g[i - 1], IF i = n THEN goal ELSE Plain(path[i]), actor, at[i])
                      ELSE None]
      <4>1. \A i \in 0..n : i # 0 => Waypoint(goal, i) = IF i = n THEN goal ELSE Plain(path[i])
        BY DEF Waypoint
      <4>2. QED
        BY <4>1 DEF step
    <3>2. QED
      BY <3>1 DEF after
  <2>2. QED
    BY <2>1 DEF ApplyCommitmentPath, Driven
<1>10. after[n] = IF forward THEN Travelled(goal, actor, at, n) ELSE None
  <2>1. n \in 0..n /\ so(n) = forward
    BY <1>1
  <2>2. QED
    BY <1>7, <2>1 DEF there
<1>11. [Draft EXCEPT !.state = goal] = [state |-> goal, history |-> <<>>]
  BY DEF Draft
<1>12. QED
  BY <1>8, <1>9, <1>10, <1>11

\* No entry is stamped after the latest one.
Ordered(c) == \A i \in DOMAIN c.history : c.history[i].at <= LastAt(c)

\* A commitment driven to its state has one unbroken history, which the auditor passes; one
\* accepted or later was accepted at the second step.  Nothing is wrong with a bare one but
\* that its history is missing.
LEMMA Synthesis ==
  ASSUME NEW goal \in States, NEW actor \in Actors, NEW n, n = Len(CommitmentPath[goal.type]),
         NEW at, Stamps(at, n), None \notin Commitment,
         NEW c, c = ApplyCommitmentPath(goal, actor, at)
  PROVE  /\ c \in Commitment /\ c.state = goal /\ CheckI2(c) /\ Ordered(c)
         /\ n # 0 => LastAt(c) \in {0, at[n]}
         /\ \/ c.history # <<>>
            \/ \A i \in 2..n : at[i] >= at[i - 1]
            => /\ UnbrokenHistory(c)
               /\ goal.type \in AcceptedOrLater => n >= 2 /\ WasAccepted(c) /\ AcceptedAt(c) = at[2]
<1> PICK u : u = Travelled(goal, actor, at, n)
  OBVIOUS
<1> DEFINE e(j) == [from |-> Waypoint(goal, j - 1), to |-> Waypoint(goal, j),
                    at |-> at[j], actor |-> actor]
           forward == \A i \in 2..n : at[i] >= at[i - 1]
<1>1. /\ n \in Nat /\ Waypoint(goal, n) = goal
      /\ \A i \in 1..n : Waypoint(goal, i).type \in CommitmentTransitions[Waypoint(goal, i - 1).type]
      /\ Waypoint(goal, 0) = Plain("Draft")
  BY WaypointTypes DEF Waypoint
<1>2. /\ u \in Commitment /\ u.state = goal /\ Len(u.history) = n /\ DOMAIN u.history = 1..n
      /\ \A j \in 1..n : u.history[j] = e(j)
  <2>1. n \in 0..n
    BY <1>1
  <2>2. /\ u \in Commitment /\ u.state = Waypoint(goal, n) /\ Len(u.history) = n
        /\ DOMAIN u.history = 1..n /\ \A j \in 1..n : u.history[j] = e(j)
    <3>1. /\ u \in Commitment /\ u.state = Waypoint(goal, n) /\ Len(u.history) = n
          /\ DOMAIN u.history = 1..n
      BY <2>1, TravelledType
    <3>2. \A j \in 1..n : u.history[j] = [from |-> Waypoint(goal, j - 1), to |-> Waypoint(goal, j),
                                          at |-> at[j], actor |-> actor]
      BY <2>1, TravelledType
    <3>3. QED
      BY <3>1, <3>2
  <2>3. QED
    BY <1>1, <2>2
<1>0. /\ \A j \in 1..n : /\ u.history[j].from = Waypoint(goal, j - 1)
                         /\ u.history[j].to = Waypoint(goal, j) /\ u.history[j].at = at[j]
  <2> SUFFICES ASSUME NEW j \in 1..n
               PROVE  /\ u.history[j].from = Waypoint(goal, j - 1)
                      /\ u.history[j].to = Waypoint(goal, j) /\ u.history[j].at = at[j]
    OBVIOUS
  <2>1. u.history[j] = e(j)
    BY <1>2
  <2>2. QED
    BY <2>1
<1>3. c = IF forward THEN u ELSE [state |-> goal, history |-> <<>>]
  BY PathApplied
<1>4. CASE ~forward
  <2>1. c.state = goal /\ c.history = <<>> /\ c \in Commitment
    BY <1>3, <1>4 DEF Commitment
  <2>2. DOMAIN c.history = {} /\ \A i \in 2..Len(c.history) : FALSE
    BY <2>1
  <2>3. QED
    BY <1>4, <2>1, <2>2 DEF CheckI2, Ordered, LastAt
<1>5. CASE forward
  <2>0. c = u
    BY <1>3, <1>5
  <2>1. \A i \in 2..n : i - 1 \in 1..n /\ i \in 1..n /\ at[i] >= at[i - 1]
    BY <1>1, <1>5
  <2> HIDE DEF forward
  <2>2. (c.history = <<>>) <=> (n = 0)
    BY <1>1, <1>2, <2>0, EmptySeq DEF Commitment
  <2>3. CheckI2(c)
    <3>1. \A i \in 1..n : IsValidCommitmentTransition(u.history[i].from, u.history[i].to)
      BY <1>1, <1>0 DEF IsValidCommitmentTransition
    <3>2. \A i \in 2..n : u.history[i].at >= u.history[i - 1].at
      BY <1>0, <2>1
    <3>3. QED
      BY <1>2, <2>0, <3>1, <3>2 DEF CheckI2
  <2>4. UnbrokenHistory(c)
    <3>1. n = 0 => c.state = Plain("Draft")
      BY <1>1, <1>2, <2>0
    <3>2. n # 0 => c.history[1].from = Plain("Draft") /\ c.history[n].to = c.state
      <4>1. n # 0 => 1 \in 1..n /\ n \in 1..n
        BY <1>1
      <4>2. QED
        BY <1>1, <1>2, <1>0, <2>0, <4>1
    <3>3. \A i \in 2..n : c.history[i].from = c.history[i - 1].to /\ c.history[i].at >= c.history[i - 1].at
      <4> SUFFICES ASSUME NEW i \in 2..n
                   PROVE  c.history[i].from = c.history[i - 1].to /\ c.history[i].at >= c.history[i - 1].at
        OBVIOUS
      <4>1. i \in 1..n /\ i - 1 \in 1..n /\ at[i] >= at[i - 1]
        BY <2>1
      <4>2. c.history[i].from = Waypoint(goal, i - 1) /\ c.history[i].at = at[i]
        BY <1>0, <2>0, <4>1
      <4>3. c.history[i - 1].to = Waypoint(goal, i - 1) /\ c.history[i - 1].at = at[i - 1]
        BY <1>0, <2>0, <4>1
      <4>4. QED
        BY <4>1, <4>2, <4>3
    <3>4. QED
      BY <1>2, <2>0, <2>2, <3>1, <3>2, <3>3 DEF UnbrokenHistory
  <2>5. n # 0 => LastAt(c) = at[n]
    <3>1. n # 0 => n \in 1..n
      BY <1>1
    <3>2. QED
      BY <1>2, <1>0, <2>0, <2>2, <3>1 DEF LastAt
  <2>6. Ordered(c)
    <3>1. \A i \in 1..n : at[i] <= at[n]
      <4> DEFINE bad == {m \in Nat : m < n /\ at[n - m] > at[n]}
      <4>1. SUFFICES ASSUME bad # {} PROVE FALSE
        <5>1. ASSUME NEW i \in 1..n, ~(at[i] <= at[n]) PROVE n - i \in bad
          <6>1. n - i \in Nat /\ n - i < n /\ n - (n - i) = i /\ at[i] \in Nat /\ at[n] \in Nat
            BY <1>1 DEF Stamps
          <6>2. QED
            BY <5>1, <6>1
        <5>2. QED
          BY <5>1
      <4>2. PICK m \in bad : \A k \in bad : m <= k
        <5>1. bad \in SUBSET Nat
          OBVIOUS
        <5> HIDE DEF bad
        <5>2. QED
          BY <4>1, <5>1, LeastNatural
      <4>3. m \in Nat /\ m < n /\ at[n - m] > at[n] /\ at[n] \in Nat
        BY <1>1 DEF Stamps
      <4>4. m # 0
        BY <1>1, <4>3
      <4>5. m - 1 \in Nat /\ m - 1 < n /\ ~(m <= m - 1) /\ n - (m - 1) \in 2..n
            /\ (n - (m - 1)) - 1 = n - m
        BY <1>1, <4>3, <4>4
      <4>6. ~(at[n - (m - 1)] > at[n])
        BY <4>2, <4>5
      <4> PICK j : j = n - (m - 1)
        OBVIOUS
      <4>7. j \in 2..n /\ j - 1 = n - m /\ ~(at[j] > at[n]) /\ at[j] >= at[j - 1]
        BY <2>1, <4>5, <4>6
      <4> HIDE DEF bad
      <4>8. j \in 1..n /\ j - 1 \in 1..n
        BY <2>1, <4>7
      <4>9. QED
        BY <4>3, <4>7, <4>8 DEF Stamps
    <3>2. \A i \in 1..n : c.history[i].at = at[i] /\ n # 0
      BY <1>1, <1>0, <2>0
    <3>3. QED
      BY <1>2, <2>0, <2>5, <3>1, <3>2 DEF Ordered
  <2>7. ASSUME goal.type \in AcceptedOrLater
        PROVE  n >= 2 /\ WasAccepted(c) /\ AcceptedAt(c) = at[2]
    <3>1. 2 \in 1..n /\ Waypoint(goal, 1).type = "Proposed" /\ Waypoint(goal, 2).type = "Accepted"
      <4> DEFINE path == CommitmentPath[goal.type]
      <4>1. n >= 2 /\ path[1] = "Proposed" /\ path[2] = "Accepted" /\ (n = 2 => goal.type = "Accepted")
        <5>1. CASE goal.type = "Accepted"
          BY <5>1 DEF CommitmentPath
        <5>2. CASE goal.type = "Fulfilled"
          BY <5>2 DEF CommitmentPath
        <5>3. CASE goal.type = "Refunded"
          BY <5>3 DEF CommitmentPath
        <5>4. CASE goal.type \in {"Modified", "Active", "Disputed", "PartiallyFulfilled"}
          <6>1. path = <<"Proposed", "Accepted", goal.type>>
            BY <5>4 DEF CommitmentPath
          <6>2. QED
            BY <6>1
        <5>5. QED
          BY <2>7, <5>1, <5>2, <5>3, <5>4 DEF AcceptedOrLater
      <4> HIDE DEF path
      <4>2. QED
        BY <1>1, <4>1 DEF Waypoint, Plain, path
    <3>2. c.history[1] = e(1) /\ c.history[2] = e(2) /\ 1 \in 1..n
      BY <1>1, <1>2, <2>0, <3>1
    <3>3. FirstAccepted(c, 2)
      <4>1. \A j \in 1..(2 - 1) : j = 1
        OBVIOUS
      <4>2. c.history[1].to.type = "Proposed" /\ c.history[2].to.type = "Accepted"
        BY <3>1, <3>2
      <4>3. QED
        BY <1>2, <2>0, <3>1, <4>1, <4>2 DEF FirstAccepted
    <3>4. QED
      BY <1>1, <1>2, <2>0, <3>1, <3>2, <3>3, FirstIsChosen
  <2>8. QED
    BY <1>2, <2>0, <2>3, <2>4, <2>5, <2>6, <2>7
<1>6. QED
  BY <1>4, <1>5

\* A fulfillment driven to its state started, if it did, at the first step.
LEMMA DeliverySynthesis ==
  ASSUME NEW id, NEW goal \in DOMAIN FulfillmentPath, NEW actor, NEW at,
         NEW f, f = ApplyFulfillmentPath(id, goal, actor, at)
  PROVE  /\ f.startedAt # None => f.startedAt = at[1]
         /\ f # None \/ f = BareFulfillment(id, goal)
<1> DEFINE path == FulfillmentPath[goal]
           n == Len(path)
           step(x, i) == FulfillmentMoved(x, Stage(path[i]), actor, at[i])
           value(g, i) == IF i = 0 THEN NewFulfillment(id)
                          ELSE IF g[i - 1] = None THEN None ELSE step(g[i - 1], i)
           Right(g) == g = [i \in 0..n |-> value(g, i)]
           after == CHOOSE g : Right(g)
<1>1. n \in {0, 1, 2}
  BY DEF FulfillmentPath
<1>2. n = 2 => path[2] # "InProgress"
  BY DEF FulfillmentPath
<1> HIDE DEF n, path
<1> PICK v0 : v0 = NewFulfillment(id)
  OBVIOUS
<1> PICK v1 : v1 = IF v0 = None THEN None ELSE step(v0, 1)
  OBVIOUS
<1> PICK v2 : v2 = IF v1 = None THEN None ELSE step(v1, 2)
  OBVIOUS
<1>3. \E g : Right(g)
  <2> DEFINE g == [i \in 0..n |-> IF i = 0 THEN v0 ELSE IF i = 1 THEN v1 ELSE v2]
  <2>1. ASSUME NEW i \in 0..n PROVE g[i] = value(g, i)
    <3>1. i \in {0, 1, 2} /\ 0 \in 0..n /\ (i = 2 => 1 \in 0..n)
      BY <1>1
    <3>2. i - 1 \in 0..n => g[i - 1] = IF i = 1 THEN v0 ELSE v1
      BY <3>1
    <3>3. g[i] = IF i = 0 THEN v0 ELSE IF i = 1 THEN v1 ELSE v2
      OBVIOUS
    <3> HIDE DEF g, step
    <3>4. QED
      BY <3>1, <3>2, <3>3
  <2>2. g = [i \in 0..n |-> g[i]]
    OBVIOUS
  <2> HIDE DEF g, value
  <2>3. QED
    BY <2>1, <2>2
<1>4. Right(after)
  <2> HIDE DEF Right
  <2>1. QED
    BY <1>3
<1>5. f = IF after[n] = None THEN BareFulfillment(id, goal) ELSE after[n]
  BY DEF ApplyFulfillmentPath, Driven, n, path
<1> HIDE DEF after
<1>6. \A i \in 0..n : after[i] = value(after, i)
  BY <1>4
<1> HIDE DEF step
<1>7. /\ n = 0 => after[n] = v0
      /\ n = 1 => after[n] = v1
      /\ n = 2 => after[n] = v2
  <2>1. after[0] = v0
    BY <1>1, <1>6
  <2>2. n >= 1 => after[1] = v1
    BY <1>1, <1>6, <2>1
  <2>3. n = 2 => after[2] = v2
    BY <1>1, <1>6, <2>2
  <2>4. QED
    BY <2>1, <2>2, <2>3
<1>8. v0.startedAt = None /\ "startedAt" \in DOMAIN v0
  BY DEF NewFulfillment
<1>9. v1 # None => \/ v1.startedAt = None
                   \/ v1.startedAt = at[1]
  BY DEF step, FulfillmentMoved, NewFulfillment
<1>10. n = 2 /\ v2 # None => v1 # None /\ v2.startedAt = v1.startedAt
  BY <1>2 DEF step, FulfillmentMoved, NewFulfillment, Stage
<1>11. BareFulfillment(id, goal).startedAt = None
  BY DEF BareFulfillment, NewFulfillment
<1>12. QED
  BY <1>1, <1>5, <1>7, <1>8, <1>9, <1>10, <1>11

-----------------------------------------------------------------------------
\* The platform's record keeps its words, its total and its platform; a mapped order its
\* money and a history in order.  A refund is within the tolerance of what was committed.
RemoteInv ==
  /\ remote \in [platform : DOMAIN StateOf, status : UNION {DOMAIN StateOf[p] : p \in DOMAIN StateOf},
                 delivery : DOMAIN FromFulfillmentStatus \cup {None},
                 total : Money \cup {NoMoney}, refund : Money \cup {NoMoney}]
  /\ remote.status \in DOMAIN StateOf[remote.platform]
  /\ remote.platform = "stripe" => remote.total \in Money /\ remote.total.amount % Minor = 0

Held(x) ==
  /\ x \in [money : Money, commitment : Commitment]
  /\ CheckI2(x.commitment) /\ Ordered(x.commitment)
  /\ x.commitment.state.type = "Refunded" => ~Overpays(x.money, x.commitment.state.amount)
  /\ remote.platform = "stripe" => x.money = remote.total
  /\ steady => /\ UnbrokenHistory(x.commitment)
               /\ x.commitment.state.type \in AcceptedOrLater => WasAccepted(x.commitment)
               /\ shipment = None => LastAt(x.commitment) <= shown

Refunds == {i \in DOMAIN emitted : emitted[i].kind = "Refunded"}

\* One refund went out, and the order, or the platform's own word for it, tells so.
RefundTold ==
  \/ Refunds = {}
  \/ /\ imports # 0 /\ imported.commitment.state.type = "Refunded"
     /\ Cardinality(Refunds) = 1
     /\ remote.platform = "woocommerce" => remote.status = "refunded"

AdaptersInv ==
  /\ RemoteInv /\ shown \in Nat /\ imports \in Nat
  /\ emitted \in Seq([kind : {"Refunded", "Cancelled"}, amount : Int])
  /\ imports = 0 => imported = None
  /\ imported # None => Held(imported)
  /\ imports <= 1 \/ remote.platform = "woocommerce" => RefundTold
  /\ remote.platform = "stripe" => \A i \in Refunds : emitted[i].amount * Minor <= remote.total.amount
  /\ imported # None /\ fresh /\ imported.commitment.state.type \in AcceptedOrLater =>
       AuditsClean(OrderId, imported.money, imported.commitment, Deliveries)

\* What a state word means is a state an order is driven to.
LEMMA WordsAreStates ==
  ASSUME NEW p \in DOMAIN StateOf, NEW s \in DOMAIN StateOf[p]
  PROVE  StateOf[p][s] \in {"Proposed", "Accepted", "Fulfilled", "Refunded", "Cancelled"}
<1>1. CASE p = "shopify"
  BY <1>1 DEF StateOf, ShopifyState
<1>2. CASE p = "woocommerce"
  BY <1>2 DEF StateOf, WooState
<1>3. CASE p = "stripe"
  BY <1>3 DEF StateOf, StripeState
<1>4. CASE p = "paypal"
  BY <1>4 DEF StateOf, PayPalState
<1>5. CASE p = "amazon"
  BY <1>5 DEF StateOf, AmazonState
<1>6. QED
  BY <1>1, <1>2, <1>3, <1>4, <1>5 DEF StateOf

\* The words of Shopify survive the way there and back.
LEMMA ShopifyWords == RemoteInv => StatusSurvives
<1> SUFFICES ASSUME RemoteInv, remote.platform = "shopify"
             PROVE  ToShopifyOrderStatus[OrderState(remote)] =
                      IF remote.delivery = "success" THEN "fulfilled" ELSE remote.status
  BY DEF StatusSurvives
<1>1. remote.status \in {"pending", "paid", "refunded", "voided"}
  BY DEF RemoteInv, StateOf, ShopifyState
<1>2. OrderState(remote) = IF remote.delivery = "success" THEN "Fulfilled" ELSE ShopifyState[remote.status]
  BY DEF OrderState, StateOf
<1>3. QED
  BY <1>1, <1>2 DEF ToShopifyOrderStatus, ShopifyState

LEMMA TargetTypes ==
  ASSUME NEW t \in {"Proposed", "Accepted", "Fulfilled", "Refunded", "Cancelled"}, NEW money \in Money
  PROVE  /\ Target(t, money) \in States /\ Target(t, money).type = t
         /\ t = "Refunded" => Target(t, money).amount = money
         /\ t \in StateTypes /\ Len(CommitmentPath[t]) # 0
<1>1. t \in StateTypes /\ (t # "Refunded" => Plain(t) \in States)
  BY PlainIsState DEF StateTypes, CommitmentTransitions
<1>2. money # NoMoney
  BY MoneyAssumption
<1>3. t = "Refunded" => [type |-> t, amount |-> money] \in States
  BY <1>1, <1>2 DEF States
<1>4. Len(CommitmentPath[t]) # 0
  BY DEF CommitmentPath
<1>5. QED
  BY <1>1, <1>3, <1>4 DEF Target, Plain

\* The readings of a synthesis.
LEMMA ReadingsType ==
  ASSUME NEW n \in Nat, NEW S \in SUBSET Nat, NEW at \in Readings(n, S)
  PROVE  /\ Stamps(at, n) /\ Len(at) = n
         /\ (at = <<>>) <=> (n = 0)
         /\ RunsForward(at) => \A i \in 2..n : at[i] >= at[i - 1]
<1>1. at \in [1..n -> Nat]
  BY DEF Readings
<1>2. at \in Seq(Nat) /\ Len(at) = n
  BY <1>1, IsASeq, LenProperties
<1>3. QED
  BY <1>1, <1>2, EmptySeq DEF Stamps, RunsForward

\* An order that is mapped, for the first time or again.
LEMMA HoldKeeps ==
  ASSUME AdaptersInv, NEW money \in Money,
         NEW t \in {"Proposed", "Accepted", "Fulfilled", "Refunded", "Cancelled"},
         NEW at \in Readings(Len(CommitmentPath[t]), Instants),
         Hold(money, Target(t, money), at),
         remote.platform = "stripe" => money = remote.total,
         remote.platform = "woocommerce" /\ remote.status = "refunded" => t = "Refunded"
  PROVE  AdaptersInv'
<1> PICK goal, n, c : /\ goal = Target(t, money) /\ n = Len(CommitmentPath[t])
                        /\ c = ApplyCommitmentPath(goal, Adapter, at)
  OBVIOUS
<1>1. /\ imports < MaxImports /\ imported' = [money |-> money, commitment |-> c]
      /\ shown' = IF at = <<>> THEN shown ELSE at[Len(at)]
      /\ imports' = imports + 1 /\ steady' = RunsForward(at) /\ fresh' = FALSE
      /\ UNCHANGED <<remote, shipment, emitted>>
  BY DEF Hold
<1>2. /\ goal \in States /\ goal.type = t /\ (t = "Refunded" => goal.amount = money)
      /\ n = Len(CommitmentPath[goal.type]) /\ n # 0 /\ n \in Nat
  BY TargetTypes, CommitmentPathType
<1>3. Stamps(at, n) /\ Len(at) = n /\ at # <<>> /\ (RunsForward(at) => \A i \in 2..n : at[i] >= at[i - 1])
  BY <1>2, ReadingsType, ImportsAssumption
<1>4. at[n] \in Nat /\ shown' = at[n]
  <2>1. n \in 1..n
    BY <1>2
  <2>2. QED
    BY <1>1, <1>3, <2>1 DEF Stamps
<1>5. /\ c \in Commitment /\ c.state = goal /\ CheckI2(c) /\ Ordered(c) /\ LastAt(c) \in {0, at[n]}
      /\ RunsForward(at) => /\ UnbrokenHistory(c)
                            /\ goal.type \in AcceptedOrLater => WasAccepted(c)
  BY <1>2, <1>3, Synthesis, ImportsAssumption
<1>6. Held(imported)'
  <2>1. c.state.type = "Refunded" => ~Overpays(money, c.state.amount)
    BY <1>2, <1>5 DEF Overpays, Money
  <2>2. LastAt(c) <= shown'
    BY <1>4, <1>5
  <2>3. QED
    BY <1>1, <1>5, <2>1, <2>2 DEF Held
<1>7. Refunds' = Refunds
  BY <1>1 DEF Refunds
<1>8. (imports <= 1 \/ remote.platform = "woocommerce" => RefundTold)'
  <2>1. imports' <= 1 => imports = 0 /\ RefundTold
    BY <1>1 DEF AdaptersInv
  <2>2. imports' <= 1 => Refunds = {}
    BY <2>1 DEF RefundTold
  <2>3. remote.platform = "woocommerce" => RefundTold
    BY DEF AdaptersInv
  <2>4. remote.platform = "woocommerce" /\ Refunds # {} => imported'.commitment.state.type = "Refunded"
    BY <1>1, <1>2, <1>5, <2>3 DEF RefundTold
  <2>5. imports' # 0
    BY <1>1 DEF AdaptersInv
  <2>6. QED
    BY <1>1, <1>7, <2>2, <2>3, <2>4, <2>5 DEF RefundTold
<1>9. QED
  BY <1>1, <1>4, <1>6, <1>7, <1>8 DEF AdaptersInv, RemoteInv

LEMMA FromOrderKeeps == AdaptersInv /\ FromOrder => AdaptersInv'
<1> SUFFICES ASSUME AdaptersInv, FromOrder PROVE AdaptersInv'
  OBVIOUS
<1> PICK t, money : t = OrderState(remote) /\ money = OrderMoney(remote)
  OBVIOUS
<1>1. PICK at \in Readings(Len(CommitmentPath[t]), Instants) : Hold(money, Target(t, money), at)
  BY DEF FromOrder
<1>2. RemoteInv
  BY DEF AdaptersInv
<1>3. t \in {"Proposed", "Accepted", "Fulfilled", "Refunded", "Cancelled"}
  BY <1>2, WordsAreStates DEF OrderState, RemoteInv
<1>4. money \in Money
  BY <1>2, ImportsAssumption DEF OrderMoney, RemoteInv
<1>5. remote.platform = "stripe" => money = remote.total
  BY <1>2, MoneyAssumption DEF OrderMoney, RemoteInv
<1>6. remote.platform = "woocommerce" /\ remote.status = "refunded" => t = "Refunded"
  BY DEF OrderState, StateOf, WooState
<1>7. QED
  BY <1>1, <1>3, <1>4, <1>5, <1>6, HoldKeeps

LEMMA FromRefundKeeps == AdaptersInv /\ FromRefund => AdaptersInv'
<1> SUFFICES ASSUME AdaptersInv, FromRefund PROVE AdaptersInv'
  OBVIOUS
<1>1. remote.platform \in {"paypal", "amazon"} /\ remote.refund \in Money
  BY DEF FromRefund, AdaptersInv, RemoteInv
<1>2. PICK t \in {"Refunded", "Accepted"} :
        \E at \in Readings(Len(CommitmentPath[t]), Instants) :
          Hold(remote.refund, Target(t, remote.refund), at)
  BY DEF FromRefund
<1>3. QED
  BY <1>1, <1>2, HoldKeeps

\* The auditor finds the first acceptance among the entries.
LEMMA AcceptanceInHistory ==
  ASSUME NEW c \in Commitment, Ordered(c), WasAccepted(c)
  PROVE  AcceptedAt(c) \in Nat /\ AcceptedAt(c) <= LastAt(c)
<1> DEFINE S == {i \in Nat : i \in DOMAIN c.history /\ c.history[i].to.type = "Accepted"}
<1>1. c.history \in Seq(Entry) /\ DOMAIN c.history = 1..Len(c.history) /\ Len(c.history) \in Nat
  BY LenProperties DEF Commitment
<1>2. PICK i \in S : \A j \in S : i <= j
  <2>1. S # {} /\ S \in SUBSET Nat
    BY <1>1 DEF WasAccepted
  <2> HIDE DEF S
  <2>2. QED
    BY <2>1, LeastNatural
<1>3. i \in DOMAIN c.history /\ FirstAccepted(c, i)
  BY <1>1, <1>2 DEF FirstAccepted
<1>4. AcceptedAt(c) = c.history[i].at
  BY <1>3, FirstIsChosen
<1>5. c.history[i] \in Entry
  BY <1>1, <1>3, ElementOfSeq
<1>6. QED
  BY <1>3, <1>4, <1>5 DEF Ordered, Entry

\* An accepted order passes the audit with a delivery that started after it.
LEMMA DeliveryAudits ==
  ASSUME NEW id, NEW money, NEW c, CheckI2(c), WasAccepted(c), NEW f,
         c.state.type = "Refunded" => ~Overpays(money, c.state.amount),
         f.startedAt # None => f.startedAt >= AcceptedAt(c)
  PROVE  AuditsClean(id, money, c, <<f>>) /\ AuditsClean(id, money, c, <<>>)
<1>1. DOMAIN <<f>> = {1} /\ <<f>>[1] = f /\ DOMAIN <<>> = {}
  OBVIOUS
<1>2. CheckI4(id, c, <<f>>) /\ CheckI4(id, c, <<>>)
  BY <1>1 DEF CheckI4
<1>3. QED
  BY <1>2 DEF AuditsClean

LEMMA FromFulfillmentKeeps == AdaptersInv /\ FromFulfillment => AdaptersInv'
<1> SUFFICES ASSUME AdaptersInv, FromFulfillment PROVE AdaptersInv'
  OBVIOUS
<1>0. PICK goal, n : goal = FromFulfillmentStatus[remote.delivery] /\ n = Len(FulfillmentPath[goal])
  OBVIOUS
<1>1. shipment = None /\ UNCHANGED <<remote, imported, steady, imports, emitted>>
  BY DEF FromFulfillment
<1>2. PICK at \in Readings(n, Instants) :
        /\ shipment' = ApplyFulfillmentPath(OrderId, goal, Adapter, at)
        /\ shown' = at[Len(at)]
        /\ fresh' = (imported # None /\ steady /\ RunsForward(<<shown>> \o at))
  BY <1>0 DEF FromFulfillment
<1>3. goal \in {"Completed", "InProgress", "Failed", "Reversed"}
  <2>1. remote.delivery \in DOMAIN FromFulfillmentStatus
    BY DEF FromFulfillment, AdaptersInv, RemoteInv
  <2>2. QED
    BY <1>0, <2>1 DEF FromFulfillmentStatus
<1>4. goal \in DOMAIN FulfillmentPath /\ n \in {1, 2}
  BY <1>0, <1>3 DEF FulfillmentPath
<1>5. at \in Seq(Nat) /\ Len(at) = n /\ at[n] \in Nat /\ at[1] \in Nat
  <2>1. at \in [1..n -> Nat]
    BY <1>2, ImportsAssumption DEF Readings
  <2>2. n \in Nat
    BY <1>4
  <2>3. at \in Seq(Nat) /\ Len(at) = n
    BY <2>1, <2>2, IsASeq, LenProperties
  <2>4. 1 \in 1..n /\ n \in 1..n
    BY <1>4
  <2>5. QED
    BY <2>1, <2>3, <2>4
<1>6. shipment' # None /\ (shipment'.startedAt # None => shipment'.startedAt = at[1])
  BY <1>2, <1>4, DeliverySynthesis, ImportsAssumption
<1>7. fresh' => imported # None /\ steady /\ at[1] >= shown
  <2>1. ASSUME RunsForward(<<shown>> \o at) PROVE at[1] >= shown
    <3> DEFINE s == <<shown>> \o at
    <3>1. shown \in Nat
      BY DEF AdaptersInv
    <3>2. Len(s) = 1 + n /\ s[1] = shown /\ s[2] = at[1]
      BY <1>4, <1>5, <3>1
    <3> HIDE DEF s
    <3>3. 2 \in 2..Len(s) /\ 2 - 1 = 1
      <4>1. Len(s) \in {2, 3}
        BY <1>4, <3>2
      <4>2. QED
        BY <4>1
    <3>4. s[2] >= s[2 - 1]
      BY <2>1, <3>3 DEF RunsForward, s
    <3>5. QED
      BY <3>2, <3>4
  <2>2. QED
    BY <1>2, <2>1
<1>8. ASSUME imported # None, fresh', imported.commitment.state.type \in AcceptedOrLater
      PROVE  AuditsClean(OrderId, imported.money, imported.commitment, Deliveries')
  <2> PICK c, f : c = imported.commitment /\ f = shipment'
    OBVIOUS
  <2>1. /\ c \in Commitment /\ CheckI2(c) /\ Ordered(c) /\ WasAccepted(c) /\ LastAt(c) <= shown
        /\ c.state.type = "Refunded" => ~Overpays(imported.money, c.state.amount)
    BY <1>1, <1>7, <1>8 DEF AdaptersInv, Held
  <2>2. AcceptedAt(c) \in Nat /\ AcceptedAt(c) <= LastAt(c) /\ LastAt(c) \in Nat
    BY <2>1, AcceptanceInHistory, LastAtType
  <2>3. f.startedAt # None => f.startedAt >= AcceptedAt(c)
    <3>1. shown \in Nat
      BY DEF AdaptersInv
    <3>2. at[1] >= AcceptedAt(c)
      BY <1>5, <1>7, <1>8, <2>1, <2>2, <3>1
    <3>3. QED
      BY <1>6, <3>2
  <2>4. Deliveries' \in {<<>>, <<f>>}
    BY DEF Deliveries
  <2>5. QED
    BY <2>1, <2>3, <2>4, DeliveryAudits
<1>9. imported # None => Held(imported)'
  <2>1. imported # None => Held(imported)
    BY DEF AdaptersInv
  <2>2. QED
    BY <1>1, <1>6, <2>1 DEF Held
<1>10. shown' \in Nat
  BY <1>2, <1>5
<1>11. Refunds' = Refunds /\ (RefundTold' <=> RefundTold) /\ (RemoteInv' <=> RemoteInv)
  BY <1>1 DEF Refunds, RefundTold, RemoteInv
<1>12. QED
  BY <1>1, <1>8, <1>9, <1>10, <1>11 DEF AdaptersInv

\* A move that the guard lets through.
LEMMA MovedKeeps ==
  ASSUME AdaptersInv, NEW to \in States, NEW at \in Instants, Moved(to, at),
         to.type \in {"Accepted", "PartiallyFulfilled", "Fulfilled", "Cancelled", "Refunded"},
         remote'.platform = remote.platform, remote'.total = remote.total
  PROVE  /\ imported' = [money |-> imported.money,
                         commitment |-> Transitioned(imported.commitment, to, Adapter, at)]
         /\ imported'.commitment.state = to /\ imported'.money = imported.money
         /\ imported.commitment.state.type # "Refunded"
         /\ to.type = "Refunded" => ~Overpays(imported.money, to.amount)
         /\ Held(imported)' /\ shown' \in Nat /\ imported # None /\ UNCHANGED imports
         /\ AuditsClean(OrderId, imported'.money, imported'.commitment, Deliveries')
<1> PICK c, d : c = imported.commitment /\ d = Transitioned(c, to, Adapter, at)
  OBVIOUS
<1>1. /\ imported # None /\ TransitionOk(c, to, at)
      /\ AuditsClean(OrderId, imported.money, d, Deliveries)
      /\ imported' = [imported EXCEPT !.commitment = d]
      /\ shown' = at /\ UNCHANGED <<shipment, steady, fresh, imports>>
  BY DEF Moved
<1>2. Held(imported) /\ at \in Nat /\ Adapter \in Actors
  BY <1>1, ImportsAssumption DEF AdaptersInv
<1>3. /\ imported \in [money : Money, commitment : Commitment] /\ c \in Commitment
      /\ imported' = [money |-> imported.money, commitment |-> d]
  BY <1>1, <1>2 DEF Held
<1>4. /\ d \in Commitment /\ d.state = to /\ Len(d.history) = Len(c.history) + 1
      /\ \A i \in 1..Len(c.history) : d.history[i] = c.history[i]
      /\ d.history[Len(c.history) + 1] = [from |-> c.state, to |-> to, at |-> at, actor |-> Adapter]
  BY <1>2, <1>3, TransitionedType, TransitionedEntries
<1>5. c.state.type # "Refunded"
  BY <1>1 DEF TransitionOk, IsValidCommitmentTransition, CommitmentTransitions
<1>6. Deliveries' = Deliveries /\ AuditsClean(OrderId, imported'.money, imported'.commitment, Deliveries')
  BY <1>1, <1>3 DEF Deliveries
<1>7. CheckI2(d) /\ (to.type = "Refunded" => ~Overpays(imported.money, to.amount))
  BY <1>1, <1>4 DEF AuditsClean
<1> PICK n : n = Len(c.history)
  OBVIOUS
<1>8. /\ n \in Nat /\ DOMAIN c.history = 1..n /\ DOMAIN d.history = 1..(n + 1)
      /\ n + 1 \in 1..(n + 1) /\ d.history # <<>>
  BY <1>3, <1>4, LenProperties, EmptySeq DEF Commitment
<1>9. LastAt(d) = at
  BY <1>4, <1>8 DEF LastAt
<1>10. Ordered(d)
  <2> SUFFICES ASSUME NEW i \in 1..(n + 1) PROVE d.history[i].at <= at
    BY <1>8, <1>9 DEF Ordered
  <2>1. CASE i = n + 1
    BY <1>2, <1>4, <2>1
  <2>2. CASE i # n + 1
    <3>1. i \in 1..n /\ d.history[i] = c.history[i]
      BY <1>4, <1>8, <2>2
    <3>2. c.history[i].at <= LastAt(c) /\ LastAt(c) <= at
      BY <1>1, <1>2, <1>8, <3>1 DEF Held, Ordered, TransitionOk
    <3>3. c.history[i] \in Entry /\ LastAt(c) \in Nat
      BY <1>3, <1>8, <3>1, ElementOfSeq, LastAtType DEF Commitment
    <3>4. QED
      BY <1>2, <3>1, <3>2, <3>3 DEF Entry
  <2>3. QED
    BY <2>1, <2>2
<1>11. ASSUME steady
       PROVE  /\ UnbrokenHistory(d)
              /\ d.state.type \in AcceptedOrLater => WasAccepted(d)
  <2>1. UnbrokenHistory(d)
    BY <1>1, <1>2, <1>3, <1>11, TransitionedUnbroken DEF Held
  <2>2. CASE to.type = "Accepted"
    BY <1>4, <1>8, <2>1, <2>2 DEF WasAccepted
  <2>3. CASE to.type \in {"PartiallyFulfilled", "Fulfilled", "Refunded"}
    <3>1. c.state.type \in {"Accepted", "PartiallyFulfilled", "Fulfilled", "Disputed"}
      <4>1. c.state.type \in DOMAIN CommitmentTransitions /\ to.type \in CommitmentTransitions[c.state.type]
        BY <1>1, <1>3 DEF Commitment, States, StateTypes, TransitionOk, IsValidCommitmentTransition
      <4>2. QED
        BY <2>3, <4>1 DEF CommitmentTransitions
    <3>2. WasAccepted(c)
      BY <1>2, <1>11, <3>1 DEF Held, AcceptedOrLater
    <3>3. QED
      BY <1>4, <1>8, <2>1, <3>2 DEF WasAccepted
  <2>4. CASE to.type = "Cancelled"
    BY <1>4, <2>1, <2>4 DEF AcceptedOrLater
  <2>5. QED
    BY <2>2, <2>3, <2>4
<1>12. Held(imported)'
  <2>1. imported' \in [money : Money, commitment : Commitment]
    BY <1>3, <1>4
  <2>2. imported'.commitment = d /\ imported'.money = imported.money
    BY <1>3
  <2>3. at <= at
    BY <1>2
  <2>4. QED
    BY <1>1, <1>2, <1>4, <1>7, <1>9, <1>10, <1>11, <2>1, <2>2, <2>3 DEF Held
<1>13. QED
  BY <1>1, <1>2, <1>3, <1>4, <1>5, <1>6, <1>7, <1>12

LEMMA MoveHeldKeeps == AdaptersInv /\ MoveHeld => AdaptersInv'
<1> SUFFICES ASSUME AdaptersInv, MoveHeld PROVE AdaptersInv'
  OBVIOUS
<1>1. PICK t \in {"Accepted", "PartiallyFulfilled", "Fulfilled"}, at \in Instants : Moved(Plain(t), at)
  BY DEF MoveHeld
<1>2. UNCHANGED <<remote, emitted>>
  BY DEF MoveHeld
<1>3. Plain(t) \in States /\ Plain(t).type = t
  BY PlainIsState DEF Plain, StateTypes, CommitmentTransitions
<1>4. /\ imported'.commitment.state = Plain(t)
      /\ imported.commitment.state.type # "Refunded"
      /\ Held(imported)' /\ shown' \in Nat /\ imported # None /\ UNCHANGED imports
      /\ AuditsClean(OrderId, imported'.money, imported'.commitment, Deliveries')
  BY <1>1, <1>2, <1>3, MovedKeeps
<1>5. Refunds' = Refunds
  BY <1>2 DEF Refunds
<1>6. (imports <= 1 \/ remote.platform = "woocommerce" => RefundTold)'
  <2>1. RefundTold => Refunds = {}
    BY <1>4 DEF RefundTold
  <2>2. QED
    BY <1>2, <1>4, <1>5, <2>1 DEF AdaptersInv, RefundTold
<1>7. QED
  BY <1>2, <1>4, <1>5, <1>6 DEF AdaptersInv, RemoteInv

\* A quotient is settled by any remainder below the divisor.
LEMMA QuotientIs ==
  ASSUME NEW b \in Nat \ {0}, NEW q \in Nat, NEW k \in Nat, NEW r \in Nat, NEW s \in Nat,
         r < b, s < b, b * q + r = b * k + s
  PROVE  q = k
<1>1. b * (k + 1) = b * k + b /\ b * (q + 1) = b * q + b /\ b * k \in Nat /\ b * q \in Nat
  OBVIOUS
<1>2. b * q < b * (k + 1) /\ b * k < b * (q + 1)
  BY <1>1
<1>3. q < k + 1 /\ k < q + 1
  BY <1>2, CancelLess
<1>4. QED
  BY <1>3

\* What is refunded within the tolerance of whole minor units rounds to those units.
LEMMA StripeExact ==
  ASSUME NEW a \in Nat, a % Minor = 0, NEW n \in Nat, n < Eps
  PROVE  ToStripeAmount(a + n) * Minor = a
<1>1. Eps \in Nat \ {0} /\ Minor = 2 * Eps
  BY MoneyAssumption DEF Minor
<1>2. PICK b, k, x, q, s : /\ b = 2 * Minor /\ k = a \div Minor /\ x = 2 * (a + n) + Minor /\ q = x \div b
                           /\ s = 2 * n + Minor
  OBVIOUS
<1>3. /\ b \in Nat \ {0} /\ x \in Nat /\ Minor \in Nat \ {0} /\ s \in Nat /\ s < b /\ x = 2 * a + s
  <2>1. b = 4 * Eps /\ x = 2 * a + 2 * n + 2 * Eps /\ s = 2 * n + 2 * Eps
    BY <1>1, <1>2
  <2>2. QED
    BY <1>1, <1>2, <2>1
<1>4. k \in Nat /\ a = Minor * k
  BY <1>2, <1>3, DivMod
<1>5. q \in Nat /\ x = b * q + (x % b) /\ x % b \in Nat /\ x % b < b
  BY <1>2, <1>3, DivMod
<1>6. 2 * a = b * k
  <2>1. \A u, v \in Nat : 2 * (u * v) = (2 * u) * v
    OBVIOUS
  <2>2. QED
    BY <1>2, <1>3, <1>4, <2>1
<1>7. q = k
  <2> PICK r : r = x % b
    OBVIOUS
  <2>1. r \in Nat /\ r < b /\ b * q + r = b * k + s
    BY <1>3, <1>5, <1>6
  <2>2. QED
    BY <1>3, <1>4, <1>5, <2>1, QuotientIs
<1>8. ToStripeAmount(a + n) = q
  BY <1>2 DEF ToStripeAmount
<1>9. k * Minor = Minor * k
  BY <1>3, <1>4
<1>10. QED
  BY <1>4, <1>7, <1>8, <1>9

LEMMA StripeAmountType == \A y \in Nat : ToStripeAmount(y) \in Nat
<1>1. Minor \in Nat \ {0}
  BY MoneyAssumption DEF Minor
<1>2. \A y \in Nat : 2 * y + Minor \in Nat /\ 2 * Minor \in Nat \ {0}
  BY <1>1
<1>3. QED
  BY <1>2, DivMod DEF ToStripeAmount

LEMMA EmitActionKeeps == AdaptersInv /\ imported # None /\ EmitAction => AdaptersInv'
<1> SUFFICES ASSUME AdaptersInv, imported # None, EmitAction PROVE AdaptersInv'
  OBVIOUS
<1> PICK money, c : money = imported.money /\ c = imported.commitment
  OBVIOUS
<1>1. PICK to \in {Plain("Cancelled")} \cup
                  {Target("Refunded", [money EXCEPT !.amount = @ + n]) : n \in 0..Eps},
           at \in Instants :
        /\ Moved(to, at)
        /\ emitted' = Append(emitted, CallFor(remote.platform, to))
        /\ remote' = CarriedOut(remote, to)
  BY DEF EmitAction
<1>2. /\ RemoteInv /\ Held(imported) /\ money \in Money /\ Eps \in Nat
      /\ emitted \in Seq([kind : {"Refunded", "Cancelled"}, amount : Int])
  BY MoneyAssumption DEF AdaptersInv, Held
<1>3. \/ to = Plain("Cancelled")
      \/ \E n \in 0..Eps : /\ to.type = "Refunded" /\ to.amount \in Money
                           /\ to.amount.amount = money.amount + n /\ to.amount.currency = money.currency
                           /\ to = Target("Refunded", to.amount)
  <2> SUFFICES ASSUME to # Plain("Cancelled")
               PROVE  \E n \in 0..Eps : /\ to.type = "Refunded" /\ to.amount \in Money
                           /\ to.amount.amount = money.amount + n /\ to.amount.currency = money.currency
                           /\ to = Target("Refunded", to.amount)
    OBVIOUS
  <2>1. PICK n \in 0..Eps : to = Target("Refunded", [money EXCEPT !.amount = @ + n])
    BY <1>1
  <2> PICK m : m = [money EXCEPT !.amount = @ + n]
    OBVIOUS
  <2>2. m \in Money /\ m.amount = money.amount + n /\ m.currency = money.currency
    BY <1>2 DEF Money
  <2>3. to.type = "Refunded" /\ to.amount = m
    BY <2>1 DEF Target
  <2>4. QED
    BY <2>1, <2>2, <2>3
<1>4. to \in States /\ to.type \in {"Cancelled", "Refunded"}
  <2>1. Plain("Cancelled") \in States /\ Plain("Cancelled").type = "Cancelled"
    BY PlainIsState DEF Plain, StateTypes, CommitmentTransitions
  <2>2. QED
    BY <1>3, <2>1, TargetTypes
<1>5. /\ remote'.platform = remote.platform /\ remote'.total = remote.total /\ RemoteInv'
      /\ to.type = "Refunded" /\ remote.platform = "woocommerce" => remote'.status = "refunded"
  <2>1. PICK p, words : p = remote.platform /\ words = UNION {DOMAIN StateOf[q] : q \in DOMAIN StateOf}
    OBVIOUS
  <2>2. PICK word : word = IF to.type = "Cancelled"
                           THEN [shopify |-> "voided", woocommerce |-> "cancelled", stripe |-> "canceled",
                                 paypal |-> "VOIDED", amazon |-> "Canceled"][p]
                           ELSE IF p \in {"shopify", "woocommerce"} THEN "refunded" ELSE remote.status
    OBVIOUS
  <2>3. p \in DOMAIN StateOf /\ p \in {"shopify", "woocommerce", "stripe", "paypal", "amazon"}
    BY <1>2, <2>1 DEF RemoteInv, StateOf
  <2>4. word \in DOMAIN StateOf[p] /\ word \in words
    <3>1. CASE to.type = "Cancelled"
      BY <2>1, <2>2, <2>3, <3>1 DEF StateOf, ShopifyState, WooState, StripeState, PayPalState, AmazonState
    <3>2. CASE to.type # "Cancelled" /\ p \in {"shopify", "woocommerce"}
      BY <2>1, <2>2, <2>3, <3>2 DEF StateOf, ShopifyState, WooState
    <3>3. CASE to.type # "Cancelled" /\ p \notin {"shopify", "woocommerce"}
      BY <1>2, <2>1, <2>2, <2>3, <3>3 DEF RemoteInv
    <3>4. word \in DOMAIN StateOf[p]
      BY <3>1, <3>2, <3>3
    <3>5. QED
      BY <2>1, <2>3, <3>4
  <2>5. PICK amount : /\ amount = IF to.type = "Cancelled" THEN remote.refund ELSE to.amount
                      /\ amount \in Money \cup {NoMoney}
    BY <1>2, <1>3 DEF RemoteInv, Plain
  <2>6. remote' = [remote EXCEPT !.status = word, !.refund = amount]
    <3>1. remote \in [platform : DOMAIN StateOf, status : words,
                      delivery : DOMAIN FromFulfillmentStatus \cup {None},
                      total : Money \cup {NoMoney}, refund : Money \cup {NoMoney}]
      BY <1>2, <2>1 DEF RemoteInv
    <3>2. CASE to.type = "Cancelled"
      <4>1. remote' = [remote EXCEPT !.status = word]
        BY <1>1, <2>1, <2>2, <3>2 DEF CarriedOut
      <4>2. QED
        BY <2>5, <3>1, <3>2, <4>1
    <3>3. CASE to.type # "Cancelled"
      <4>1. remote' = [remote EXCEPT !.refund = to.amount,
                                     !.status = IF p \in {"shopify", "woocommerce"} THEN "refunded" ELSE @]
        <5>1. PICK refunded : refunded = [shopify |-> "refunded", woocommerce |-> "refunded"]
          OBVIOUS
        <5>2. (p \in DOMAIN refunded <=> p \in {"shopify", "woocommerce"})
              /\ (p \in {"shopify", "woocommerce"} => refunded[p] = "refunded")
          BY <5>1
        <5>3. remote' = [remote EXCEPT !.refund = to.amount,
                                       !.status = IF p \in DOMAIN refunded THEN refunded[p] ELSE @]
          BY <1>1, <2>1, <3>3, <5>1, Zenon DEF CarriedOut
        <5>4. QED
          BY <5>2, <5>3
      <4>2. QED
        BY <2>2, <2>5, <3>1, <3>3, <4>1
    <3>4. QED
      BY <3>2, <3>3
  <2>7. /\ remote' \in [platform : DOMAIN StateOf, status : words,
                        delivery : DOMAIN FromFulfillmentStatus \cup {None},
                        total : Money \cup {NoMoney}, refund : Money \cup {NoMoney}]
        /\ remote'.platform = p /\ remote'.total = remote.total /\ remote'.status = word
    BY <1>2, <2>1, <2>4, <2>5, <2>6 DEF RemoteInv
  <2>8. to.type = "Refunded" /\ remote.platform = "woocommerce" => word = "refunded"
    BY <2>1, <2>2
  <2>9. QED
    BY <1>2, <2>1, <2>4, <2>7, <2>8 DEF RemoteInv
<1>6. /\ imported'.commitment.state = to /\ imported'.money = money
      /\ c.state.type # "Refunded" /\ (to.type = "Refunded" => ~Overpays(money, to.amount))
      /\ Held(imported)' /\ shown' \in Nat /\ UNCHANGED imports
      /\ AuditsClean(OrderId, imported'.money, imported'.commitment, Deliveries')
  BY <1>1, <1>4, <1>5, MovedKeeps
<1> PICK k, call : k = Len(emitted) + 1 /\ call = CallFor(remote.platform, to)
  OBVIOUS
<1>7. call.kind = to.type /\ call.amount \in Int /\ call = [kind |-> call.kind, amount |-> call.amount]
  <2>1. call = [kind |-> to.type,
                amount |-> IF to.type = "Cancelled" THEN 0
                           ELSE IF remote.platform = "stripe" THEN ToStripeAmount(to.amount.amount)
                           ELSE to.amount.amount]
    BY DEF CallFor
  <2>2. to.type = "Refunded" => to.amount.amount \in Nat
    BY <1>3 DEF Money, Plain
  <2>3. to.type = "Refunded" => ToStripeAmount(to.amount.amount) \in Nat
    BY <2>2, StripeAmountType
  <2>4. QED
    BY <1>4, <2>1, <2>2, <2>3
<1>8. /\ emitted' \in Seq([kind : {"Refunded", "Cancelled"}, amount : Int])
      /\ Refunds' = IF to.type = "Refunded" THEN Refunds \cup {k} ELSE Refunds
      /\ \A i \in Refunds : emitted'[i] = emitted[i]
      /\ emitted'[k] = call
  <2>1. call \in [kind : {"Refunded", "Cancelled"}, amount : Int]
    BY <1>4, <1>7
  <2>2. /\ emitted' \in Seq([kind : {"Refunded", "Cancelled"}, amount : Int])
        /\ Len(emitted') = k /\ k \in Nat /\ Len(emitted) \in Nat /\ k = Len(emitted) + 1
        /\ \A i \in 1..Len(emitted) : emitted'[i] = emitted[i]
        /\ emitted'[k] = call
    BY <1>1, <1>2, <2>1, AppendProperties, LenProperties
  <2>3. DOMAIN emitted = 1..Len(emitted) /\ DOMAIN emitted' = 1..k
    BY <1>2, <2>2, LenProperties
  <2>4. \A i : i \in 1..k <=> i \in 1..Len(emitted) \/ i = k
    BY <2>2
  <2>5. Refunds' = {i \in 1..k : emitted'[i].kind = "Refunded"}
    BY <2>3 DEF Refunds
  <2>6. Refunds = {i \in 1..Len(emitted) : emitted[i].kind = "Refunded"}
    BY <2>3 DEF Refunds
  <2>7. QED
    BY <1>7, <2>2, <2>4, <2>5, <2>6
<1>9. (imports <= 1 \/ remote.platform = "woocommerce" => RefundTold)'
  <2>1. RefundTold => Refunds = {}
    BY <1>6 DEF RefundTold
  <2>2. imports # 0
    BY DEF AdaptersInv
  <2>3. Cardinality({k}) = 1
    BY FS_Singleton
  <2>4. Refunds = {} => Refunds' = {} \/ (to.type = "Refunded" /\ Refunds' = {k})
    BY <1>8
  <2>5. QED
    BY <1>5, <1>6, <2>1, <2>2, <2>3, <2>4 DEF AdaptersInv, RefundTold
<1>10. ASSUME remote.platform = "stripe", to.type = "Refunded"
       PROVE  call.amount * Minor <= remote.total.amount
  <2>1. PICK n \in 0..Eps : to.amount.amount = money.amount + n /\ to.amount.currency = money.currency
    BY <1>3, <1>10 DEF Plain
  <2>2. money = remote.total /\ money.amount \in Nat /\ money.amount % Minor = 0
    BY <1>2, <1>10 DEF Held, RemoteInv, Money
  <2>3. n < Eps
    <3>1. ~(to.amount.amount > money.amount /\ ~MoneyEquals(to.amount.amount, money.amount))
      BY <1>6, <1>10, <2>1 DEF Overpays
    <3>2. PICK m, eps : m = money.amount /\ eps = Eps
      OBVIOUS
    <3>3. m \in Nat /\ eps \in Nat \ {0} /\ n \in Nat /\ n <= eps
      BY <2>1, <2>2, <3>2, MoneyAssumption
    <3>4. ~(m + n > m /\ ~((m + n) - m < eps /\ m - (m + n) < eps))
      BY <2>1, <3>1, <3>2 DEF MoneyEquals
    <3>5. n < eps
      BY <3>3, <3>4
    <3>6. QED
      BY <3>2, <3>5
  <2>4. call.amount = ToStripeAmount(money.amount + n)
    BY <1>10, <2>1 DEF CallFor
  <2>5. call.amount * Minor = money.amount
    BY <1>2, <2>1, <2>2, <2>3, <2>4, StripeExact
  <2>6. QED
    BY <2>2, <2>5
<1>11. QED
  BY <1>5, <1>6, <1>8, <1>9, <1>10 DEF AdaptersInv

LEMMA AdaptersStart == AdaptersInit => AdaptersInv
<1> SUFFICES ASSUME AdaptersInit PROVE AdaptersInv
  OBVIOUS
<1>1. PICK p \in DOMAIN StateOf :
        remote \in {[platform |-> p, status |-> s, delivery |-> d, total |-> m, refund |-> NoMoney] :
            s \in DOMAIN StateOf[p],
            d \in IF p = "shopify" THEN DOMAIN FromFulfillmentStatus \cup {None} ELSE {None},
            m \in IF p \in {"paypal", "amazon"} THEN Totals ELSE Totals \ {NoMoney}}
  BY DEF AdaptersInit, Records
<1>2. PICK s \in DOMAIN StateOf[p],
           d \in IF p = "shopify" THEN DOMAIN FromFulfillmentStatus \cup {None} ELSE {None},
           m \in IF p \in {"paypal", "amazon"} THEN Totals ELSE Totals \ {NoMoney} :
        remote = [platform |-> p, status |-> s, delivery |-> d, total |-> m, refund |-> NoMoney]
  BY <1>1
<1>3. d \in DOMAIN FromFulfillmentStatus \cup {None} /\ m \in Money \cup {NoMoney}
      /\ (p = "stripe" => m \in Money)
  BY <1>2, ImportsAssumption
<1>4. s \in UNION {DOMAIN StateOf[q] : q \in DOMAIN StateOf}
  BY <1>2
<1>5. RemoteInv
  <2>1. remote.platform = p /\ remote.status = s /\ remote.total = m
    BY <1>2
  <2>2. remote \in [platform : DOMAIN StateOf, status : UNION {DOMAIN StateOf[q] : q \in DOMAIN StateOf},
                    delivery : DOMAIN FromFulfillmentStatus \cup {None},
                    total : Money \cup {NoMoney}, refund : Money \cup {NoMoney}]
    BY <1>2, <1>3, <1>4
  <2>3. QED
    BY <1>2, <1>3, <2>1, <2>2 DEF RemoteInv, AdaptersInit
<1>6. Refunds = {}
  <2>1. DOMAIN emitted = {}
    BY DEF AdaptersInit
  <2>2. QED
    BY <2>1 DEF Refunds
<1>7. QED
  BY <1>5, <1>6 DEF AdaptersInit, AdaptersInv, RefundTold

LEMMA AdaptersKeep == AdaptersInv /\ [AdaptersNext]_adapterVars => AdaptersInv'
<1> SUFFICES ASSUME AdaptersInv, [AdaptersNext]_adapterVars PROVE AdaptersInv'
  OBVIOUS
<1>1. CASE UNCHANGED adapterVars
  BY <1>1 DEF adapterVars, AdaptersInv, RemoteInv, Held, Refunds, RefundTold, Deliveries
<1>2. CASE FromOrder
  BY <1>2, FromOrderKeeps
<1>3. CASE FromRefund
  BY <1>3, FromRefundKeeps
<1>4. CASE FromFulfillment
  BY <1>4, FromFulfillmentKeeps
<1>5. CASE imported # None /\ MoveHeld
  BY <1>5, MoveHeldKeeps
<1>6. CASE imported # None /\ EmitAction
  BY <1>6, EmitActionKeeps
<1>7. QED
  BY <1>1, <1>2, <1>3, <1>4, <1>5, <1>6 DEF AdaptersNext

LEMMA AdaptersSound == AdaptersInv => ImportsAudit /\ StatusSurvives /\ RefundsReachOnce
<1> SUFFICES ASSUME AdaptersInv PROVE ImportsAudit /\ StatusSurvives /\ RefundsReachOnce
  OBVIOUS
<1>1. ImportsAudit
  BY DEF AdaptersInv, Held, ImportsAudit
<1>2. StatusSurvives
  BY ShopifyWords DEF AdaptersInv
<1>3. RefundsReachOnce
  <2>1. RefundTold => Cardinality(Refunds) <= 1
    <3>1. Cardinality({}) = 0
      BY FS_EmptySet
    <3>2. QED
      BY <3>1 DEF RefundTold
  <2>2. imports = 1 => imports <= 1
    OBVIOUS
  <2>3. QED
    BY <2>1, <2>2 DEF AdaptersInv, RefundsReachOnce, Refunds
<1>4. QED
  BY <1>1, <1>2, <1>3

-----------------------------------------------------------------------------
\* What build() hands back is sound whatever was said, and in whatever order.
BuilderInv ==
  /\ parties \in [{"buyer", "seller"} -> Actors \cup {None}]
  /\ reached \in {"proposed", "paid", "fulfilled"}
  /\ BuiltOrdersAudit

\* The readings build() takes: the commitment's, the intent's, the fulfillment's.
LEMMA ReadingsOfBuild ==
  ASSUME NEW n \in Nat, NEW at \in Readings(n + 3, Clocks)
  PROVE  /\ Stamps(SubSeq(at, 1, n), n) /\ \A i \in 1..n : SubSeq(at, 1, n)[i] = at[i]
         /\ SubSeq(at, n + 2, n + 3)[1] = at[n + 2]
         /\ RunsForward(at) /\ n = 4 => at[n + 2] >= at[2]
<1>1. at \in [1..(n + 3) -> Nat] /\ n + 3 \in Nat
  <2>1. PICK m : m = n + 3
    OBVIOUS
  <2>2. at \in [1..m -> Nat]
    BY <2>1, BuilderAssumption DEF Readings
  <2>3. QED
    BY <2>1, <2>2
<1>2. at \in Seq(Nat) /\ Len(at) = n + 3 /\ \A i \in 1..(n + 3) : at[i] \in Nat
  BY <1>1, IsASeq, LenProperties
<1>3. \A i \in 1..n : SubSeq(at, 1, n)[i] = at[i]
  BY <1>2
<1>4. \A i \in 1..n : i \in 1..(n + 3)
  OBVIOUS
<1>5. SubSeq(at, n + 2, n + 3)[1] = at[n + 2]
  <2>1. n + 2 \in 1..(n + 3) /\ n + 3 \in 1..(n + 3)
    OBVIOUS
  <2>2. QED
    BY <1>2, <2>1
<1>6. ASSUME RunsForward(at), n = 4 PROVE at[n + 2] >= at[2]
  <2>1. n + 3 = 7 /\ n + 2 = 6
    BY <1>6
  <2>2. \A i \in 2..7 : at[i] >= at[i - 1]
    BY <1>2, <1>6, <2>1 DEF RunsForward
  <2>3. at[3] >= at[2] /\ at[4] >= at[3] /\ at[5] >= at[4] /\ at[6] >= at[5]
    BY <2>2
  <2>4. at[2] \in Nat /\ at[3] \in Nat /\ at[4] \in Nat /\ at[5] \in Nat /\ at[6] \in Nat
    BY <1>2, <2>1
  <2>5. QED
    BY <2>1, <2>3, <2>4
<1>7. QED
  BY <1>2, <1>3, <1>4, <1>5, <1>6 DEF Stamps

\* What build() answers.
LEMMA AnswerAudits ==
  ASSUME BuilderInv, NEW n, n = Len(CommitmentPath[TargetState[reached]]),
         NEW at \in Readings(n + 3, Clocks), Answered(at).ok
  PROVE  LET b == Answered(at)
         IN /\ UnbrokenHistory(b.commitment)
            /\ b.commitment.state.type \in AcceptedOrLater => b.buyerMayBuy
            /\ b.fulfillments # <<>> <=> b.commitment.state.type = "Fulfilled"
            /\ RunsForward(at) => AuditsClean("order", b.total, b.commitment, b.fulfillments)
<1>1. PICK t, goal, first, second, c, f, b :
        /\ t = TargetState[reached] /\ goal = Plain(t)
        /\ first = SubSeq(at, 1, n) /\ second = SubSeq(at, n + 2, n + 3)
        /\ c = ApplyCommitmentPath(goal, parties.buyer, first)
        /\ f = ApplyFulfillmentPath("order", "Completed", parties.seller, second)
        /\ b = Answered(at)
  OBVIOUS
<1>2. /\ t \in {"Proposed", "Accepted", "Fulfilled"}
      /\ reached = "proposed" <=> t = "Proposed"
      /\ reached = "fulfilled" <=> t = "Fulfilled"
  BY <1>1 DEF BuilderInv, TargetState
<1>3. /\ goal \in States /\ goal.type = t /\ n = Len(CommitmentPath[goal.type]) /\ n \in Nat
      /\ t \in StateTypes
  <2>1. t \in StateTypes /\ t # "Refunded"
    BY <1>2 DEF StateTypes, CommitmentTransitions
  <2>2. QED
    BY <1>1, <2>1, PlainIsState, CommitmentPathType DEF Plain
<1>4. Composes /\ Reaches(c, t) /\ (reached = "fulfilled" => f.state.type = "Completed" /\ f.history # <<>>)
      /\ b = [ok |-> TRUE, commitment |-> c, total |-> OrderTotal, buyerMayBuy |-> reached # "proposed",
              fulfillments |-> IF reached = "fulfilled" THEN <<f>> ELSE <<>>]
  BY <1>1 DEF Answered, Refusal
<1>5. parties.buyer \in Actors
  BY <1>4 DEF BuilderInv, Composes
<1>6. /\ Stamps(first, n) /\ \A i \in 1..n : first[i] = at[i]
      /\ second[1] = at[n + 2]
      /\ RunsForward(at) /\ n = 4 => at[n + 2] >= at[2]
  BY <1>1, <1>3, ReadingsOfBuild
<1>7. /\ c.state = goal /\ CheckI2(c) /\ UnbrokenHistory(c)
      /\ t \in AcceptedOrLater => n >= 2 /\ WasAccepted(c) /\ AcceptedAt(c) = at[2]
  <2>1. PICK actor : actor = parties.buyer
    OBVIOUS
  <2>2. c.history # <<>> /\ c = ApplyCommitmentPath(goal, actor, first) /\ actor \in Actors
    BY <1>1, <1>4, <1>5, <2>1 DEF Reaches
  <2>3. /\ c.state = goal /\ CheckI2(c) /\ UnbrokenHistory(c)
        /\ goal.type \in AcceptedOrLater => n >= 2 /\ WasAccepted(c) /\ AcceptedAt(c) = first[2]
    BY <1>3, <1>6, <2>2, Synthesis, ImportsAssumption
  <2>4. n >= 2 => 2 \in 1..n
    BY <1>3
  <2>5. QED
    BY <1>3, <1>6, <2>3, <2>4
<1>8. f.startedAt # None => f.startedAt = at[n + 2]
  <2>1. PICK id, word, actor : id = "order" /\ word = "Completed" /\ actor = parties.seller
    OBVIOUS
  <2>2. word \in DOMAIN FulfillmentPath /\ f = ApplyFulfillmentPath(id, word, actor, second)
    BY <1>1, <2>1 DEF FulfillmentPath
  <2>3. f.startedAt # None => f.startedAt = second[1]
    BY <2>2, DeliverySynthesis
  <2>4. QED
    BY <1>6, <2>3
<1>9. c.state.type # "Refunded" /\ (t = "Fulfilled" => t \in AcceptedOrLater /\ n = 4)
  BY <1>1, <1>2, <1>3, <1>7 DEF AcceptedOrLater, CommitmentPath
<1>10. ASSUME RunsForward(at) PROVE AuditsClean("order", b.total, c, b.fulfillments)
  <2>1. CASE t = "Fulfilled"
    <3>1. at[n + 2] >= at[2] /\ AcceptedAt(c) = at[2]
      BY <1>6, <1>7, <1>9, <1>10, <2>1
    <3>2. f.startedAt # None => f.startedAt >= AcceptedAt(c)
      BY <1>8, <3>1
    <3>3. AuditsClean("order", b.total, c, <<f>>)
      BY <1>7, <1>9, <2>1, <3>2, DeliveryAudits
    <3>4. QED
      BY <1>2, <1>4, <2>1, <3>3
  <2>2. CASE t # "Fulfilled"
    <3>1. b.fulfillments = <<>> /\ DOMAIN <<>> = {}
      BY <1>2, <1>4, <2>2
    <3>2. CheckI4("order", c, <<>>)
      BY <3>1 DEF CheckI4
    <3>3. QED
      BY <1>7, <1>9, <3>1, <3>2 DEF AuditsClean
  <2>3. QED
    BY <2>1, <2>2
<1>11. /\ c.state.type \in AcceptedOrLater => b.buyerMayBuy
       /\ b.fulfillments # <<>> <=> c.state.type = "Fulfilled"
  BY <1>2, <1>3, <1>4, <1>7 DEF AcceptedOrLater
<1>12. QED
  BY <1>1, <1>4, <1>7, <1>10, <1>11

LEMMA BuilderKeeps == BuilderInv /\ [BuilderNext]_builderVars => BuilderInv'
<1> SUFFICES ASSUME BuilderInv, [BuilderNext]_builderVars PROVE BuilderInv'
  OBVIOUS
<1>1. CASE UNCHANGED builderVars
  BY <1>1 DEF builderVars, BuilderInv, BuiltOrdersAudit
<1>2. CASE NameParty
  BY <1>2 DEF NameParty, Unasked, BuilderInv, BuiltOrdersAudit
<1>3. ASSUME NEW money, AddLine(money) PROVE BuilderInv'
  BY <1>3 DEF AddLine, Unasked, BuilderInv, BuiltOrdersAudit
<1>4. CASE AddItem \/ AddValue
  BY <1>3, <1>4 DEF AddItem, AddValue
<1>5. CASE MarkPaid \/ MarkFulfilled
  BY <1>5 DEF MarkPaid, MarkFulfilled, PaidFrom, Unasked, BuilderInv, BuiltOrdersAudit
<1>6. CASE BuildOrder
  <2>1. PICK n, at : /\ n = Len(CommitmentPath[TargetState[reached]]) /\ at \in Readings(n + 3, Clocks)
                     /\ built' = Answered(at) /\ onTime' = RunsForward(at)
    BY <1>6 DEF BuildOrder
  <2>2. UNCHANGED <<parties, basket, reached>>
    BY <1>6 DEF BuildOrder
  <2>3. BuiltOrdersAudit'
    <3> PICK b : b = Answered(at)
      OBVIOUS
    <3>1. b.ok => /\ UnbrokenHistory(b.commitment)
                  /\ b.commitment.state.type \in AcceptedOrLater => b.buyerMayBuy
                  /\ b.fulfillments # <<>> <=> b.commitment.state.type = "Fulfilled"
                  /\ RunsForward(at) => AuditsClean("order", b.total, b.commitment, b.fulfillments)
      BY <2>1, AnswerAudits
    <3>2. QED
      BY <2>1, <3>1 DEF BuiltOrdersAudit
  <2>4. QED
    BY <2>2, <2>3 DEF BuilderInv
<1>7. QED
  BY <1>1, <1>2, <1>4, <1>5, <1>6 DEF BuilderNext

\* What the adapters import and what the builder hands back has an unbroken history and
\* audits clean when the clock runs forward, and a status and a refund survive the way back
\* to the platform, on every clock and for every order.
THEOREM OrdersSound == AdaptersSpec /\ BuilderSpec => []OrdersMadeSoundly
<1>1. BuilderInit => BuilderInv
  BY DEF BuilderInit, BuilderInv, BuiltOrdersAudit
<1>2. AdaptersInv /\ BuilderInv => OrdersMadeSoundly
  BY AdaptersSound DEF BuilderInv, OrdersMadeSoundly
<1>3. QED
  BY <1>1, <1>2, AdaptersStart, AdaptersKeep, BuilderKeeps, PTL DEF AdaptersSpec, BuilderSpec
=============================================================================
