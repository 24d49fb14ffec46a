-------------------------------- MODULE Split --------------------------------
(***************************************************************************)
(* createSplitFulfillment: the committed amount of a parent allocated to   *)
(* children one at a time.  The running total is capped; a split that      *)
(* leaves nothing is held against the tree check I-6.                      *)
(***************************************************************************)
EXTENDS Pricing

CONSTANTS
  Wholes,      \* the committed amounts a parent may have, NoMoney included
  Shares,      \* the amounts children may carry: Money or NoMoney
  Weightings,  \* the weights a parent may be cut by
  MaxChildren  \* bound: no more recorded children than this

ASSUME SharesAssumption ==
  /\ Wholes \subseteq Money \cup {NoMoney}
  /\ Shares \subseteq Money \cup {NoMoney}
  /\ Weightings \subseteq Seq(Nat)

VARIABLES
  whole,      \* the parent's committed amount, or NoMoney
  weights,    \* the weights allocate() was given, <<>> when the caller cuts by hand
  children,   \* the amounts of the recorded children, in order
  tally,      \* their running total
  refused     \* history variable: whether the last allocation was refused

splitVars == <<whole, weights, children, tally, refused>>

-----------------------------------------------------------------------------
(* allocate: the largest-remainder method, in minor units of 2 * Eps.      *)

SumOfAll(numbers) == SumFunctionOnSet(numbers, DOMAIN numbers)

MinorUnits(total) == (total.amount + Eps) \div (2 * Eps)

CanAllocate(ws) == ws # <<>> /\ SumOfAll(ws) > 0

\* Slip: what the floors leave over is given to the first parts.
PartInOrder(ws, minor, i) ==
  LET floored(j) == (minor * ws[j]) \div SumOfAll(ws)
  IN floored(i)
       + IF i <= minor - SumOfAll([j \in DOMAIN ws |-> floored(j)]) THEN 1 ELSE 0

\* The part's floor, and one unit more for the largest remainders until nothing is left.
Part(ws, minor, i) ==
  LET floored(j)   == (minor * ws[j]) \div SumOfAll(ws)
      remainder(j) == (minor * ws[j]) % SumOfAll(ws)
      leftover     == minor - SumOfAll([j \in DOMAIN ws |-> floored(j)])
      ahead        == {j \in DOMAIN ws : \/ remainder(j) > remainder(i)
                                         \/ remainder(j) = remainder(i) /\ j < i}
  IN floored(i) + IF Cardinality(ahead) < leftover THEN 1 ELSE 0

Allocate(total, ws) ==
  [i \in DOMAIN ws |-> [amount   |-> 2 * Eps * Part(ws, MinorUnits(total), i),
                        currency |-> total.currency]]

-----------------------------------------------------------------------------
(* createSplitFulfillment.                                                 *)

SumShares(shares) ==
  SumFunctionOnSet([i \in DOMAIN shares |-> shares[i].amount], DOMAIN shares)

\* Slip: the tolerance is granted twice.
OverAllocatesByEps(total) == total > whole.amount + 2 * Eps

\* isOverAllocation: the refund clause of I-1, asked of the running total.
OverAllocates(total) == total > whole.amount /\ ~MoneyEquals(total, whole.amount)

\* checkI6TreeConsistency of the parent with the children recorded.
Reconciles(shares) ==
  /\ \A i \in DOMAIN shares : shares[i].currency = whole.currency
  /\ MoneyEquals(SumShares(shares), whole.amount)

Comparable(share) ==
  whole # NoMoney /\ share # NoMoney /\ share.currency = whole.currency

\* Slip: the cap is on each child by itself.
AdmitsAlone(share) == Comparable(share) /\ ~OverAllocates(share.amount)

Admits(share) == Comparable(share) /\ ~OverAllocates(tally + share.amount)

Left(total) == IF total > whole.amount THEN 0 ELSE whole.amount - total

\* Recorded first; when nothing is left, the finished tree is checked after that.
AllocateShare(share) ==
  /\ Len(children) < MaxChildren
  /\ Admits(share)
  /\ children' = Append(children, share)
  /\ tally' = tally + share.amount
  /\ refused' = (Left(tally') = 0 /\ ~Reconciles(children'))

RefuseShare(share) == ~Admits(share) /\ refused' = TRUE /\ UNCHANGED <<children, tally>>

SplitInit ==
  /\ whole \in Wholes
  /\ weights \in {<<>>} \cup {ws \in Weightings : whole # NoMoney /\ CanAllocate(ws)}
  /\ children = <<>> /\ tally = 0 /\ refused = FALSE

\* The shares that may come next: any, or the next one allocate() cut off.
Comes(share) ==
  IF weights = <<>> THEN share \in Shares
  ELSE /\ Len(children) < Len(weights)
       /\ share = Allocate(whole, weights)[Len(children) + 1]

ShareOut(share) == AllocateShare(share) \/ RefuseShare(share)

SplitNext ==
  \E share \in Shares \cup Range(Allocate(whole, weights)) :
    Comes(share) /\ ShareOut(share) /\ UNCHANGED <<whole, weights>>

SplitSpec == SplitInit /\ [][SplitNext]_splitVars

-----------------------------------------------------------------------------
(* Properties.                                                             *)

\* "On rejection nothing is recorded": the children recorded before the tree check are
\* never refused by it, since the cap and the check share one tolerance.
RefusalRecordsNothing == [][children' # children => ~refused']_splitVars

\* However the whole is cut up, the recorded shares stay within it, to the tolerance
\* once, and a split with nothing left reconciles as a tree.
SharesWithinWhole ==
  /\ tally = SumShares(children)
  /\ children # <<>> => tally < whole.amount + Eps
  /\ children # <<>> /\ Left(tally) = 0 => Reconciles(children)

\* The shares allocate() cuts are all admitted, and the last one completes the split;
\* no share is a whole minor unit away from what its weight is worth, and a greater
\* weight never gets the smaller share.  (For a whole of whole minor units.)
CutsComplete ==
  weights # <<>> /\ whole.amount % (2 * Eps) = 0 =>
    /\ ~refused
    /\ Len(children) = Len(weights) => tally = whole.amount
    /\ \A i \in DOMAIN children :
         LET due == whole.amount * weights[i]
             got == children[i].amount * SumOfAll(weights)
             one == 2 * Eps * SumOfAll(weights)
         IN got < due + one /\ due < got + one
    /\ \A i, j \in DOMAIN children :
         weights[i] > weights[j] => children[i].amount >= children[j].amount
=============================================================================
