--------------------------- MODULE SessionProofs ---------------------------
(***************************************************************************)
(* Theorems about Session, for every world, request set and clock.  The    *)
(* lemmas about a step hold of any well-formed proposal, whoever makes it  *)
(* and with whatever version: the modules that compose sessions cite them. *)
(***************************************************************************)
EXTENDS Session, CommerceModelProofs

\* What propose() is given is an action on some id, to some state.
Proposable(a) == a.commitment \in Ids /\ a.to \in States /\ a.actor \in Actors

Proposes == \E a, expected : \E at \in Times : Proposable(a) /\ Propose(a, expected, at)

\* TypeOK without the keys, which depend on who proposes.
Typed ==
  /\ world \in [Commitments -> Commitment]
  /\ ledger \in [Commitments -> Nat]
  /\ treeLedger \in [Commitments -> Money \cup {NoMoney}]
  /\ paid \in [Commitments -> [Currencies -> Nat]]

LEMMA TypedIsTypeOK == TypeOK <=> Typed /\ applied \subseteq ActionKeys
BY DEF TypeOK, Typed

\* A request is a well-formed action with a known key.
LEMMA RequestType ==
  ASSUME NEW a \in Requests
  PROVE  Proposable(a) /\ ActionKey(a) \in ActionKeys
BY RequestsAssumption DEF Actions, ActionKeys, Proposable

LEMMA NextProposes == [Next]_vars => [Proposes]_vars
BY RequestType DEF Next, ProposeAnytime, Proposes

\* Its amount is a Money exactly when it refunds.
LEMMA ProposableType ==
  ASSUME NEW a, Proposable(a)
  PROVE  /\ a.commitment \in Ids /\ a.to \in States /\ a.actor \in Actors
         /\ (a.to.type = "Refunded") <=> (a.to.amount \in Money)
BY MoneyAssumption DEF Proposable, States

\* The root of a commitment's tree is a commitment.
LEMMA RootType == ASSUME NEW c \in Commitments PROVE TreeRoot[c] \in Commitments
BY ForestAssumption DEF TreeRoot, AncestorLine

\* A commitment without a parent in the world is the root of its own tree.
LEMMA RootOfRoot == ASSUME NEW r \in Commitments, Up(r) = r PROVE TreeRoot[r] = r
<1>1. {r} \in SUBSET Commitments /\ r \in {r} /\ \A x \in {r} : Up(x) \in {r}
  OBVIOUS
<1>2. \A q \in AncestorLine(r) : q \in {r}
  BY <1>1 DEF AncestorLine
<1>3. QED
  BY <1>2, ForestAssumption DEF TreeRoot

\* What a refund the ledgers watch is made of.
LEMMA TrackedType ==
  ASSUME Typed, NEW a, Proposable(a), Tracked(a)
  PROVE  /\ a.commitment \in Commitments
         /\ a.to.amount \in Money
         /\ a.to.amount.amount \in Nat /\ a.to.amount.currency \in Currencies
         /\ Committed[a.commitment] \in Money
         /\ Committed[a.commitment].currency = a.to.amount.currency
         /\ Cumulative(a) \in Nat
<1>1. a.commitment \in Commitments /\ a.to.amount \in Money
  BY ProposableType DEF Tracked, Known
<1>2. Committed[a.commitment] \in Money
  BY <1>1, MoneyAssumption DEF Tracked
<1>3. QED
  BY <1>1, <1>2 DEF Tracked, Cumulative, Typed, Money

\* A move the guard accepts appends one entry to one commitment.
LEMMA MoveInType ==
  ASSUME Typed, NEW a, Proposable(a), NEW expected, NEW at \in Times,
         Accepting(a, expected, at)
  PROVE  /\ a.commitment \in Commitments
         /\ TransitionOk(world[a.commitment], a.to, at)
         /\ MoveIn(world, a, at) \in [Commitments -> Commitment]
         /\ MoveIn(world, a, at)[a.commitment]
              = Transitioned(world[a.commitment], a.to, a.actor, at)
         /\ MoveIn(world, a, at)[a.commitment].state = a.to
         /\ \A c \in Commitments \ {a.commitment} : MoveIn(world, a, at)[c] = world[c]
<1>1. a.commitment \in Commitments /\ TransitionOk(world[a.commitment], a.to, at)
  BY DEF Accepting, GuardAccepts
<1>2. world \in [Commitments -> Commitment] /\ at \in Nat
  BY RequestsAssumption DEF Typed
<1>3. Transitioned(world[a.commitment], a.to, a.actor, at) \in Commitment
      /\ Transitioned(world[a.commitment], a.to, a.actor, at).state = a.to
  BY <1>1, <1>2, ProposableType, TransitionedType
<1>4. QED
  BY <1>1, <1>2, <1>3 DEF MoveIn

\* Recording a refund keeps the ledgers, the keys and the paybacks well typed.
LEMMA RecordType ==
  ASSUME Typed, NEW a, Proposable(a), Tracked(a)
  PROVE  /\ RecordInLedger(a) => ledger' \in [Commitments -> Nat]
         /\ RecordTree(a) => treeLedger' \in [Commitments -> Money \cup {NoMoney}]
         /\ PayBack(a) => paid' \in [Commitments -> [Currencies -> Nat]]
<1>1. RecordInLedger(a) => ledger' \in [Commitments -> Nat]
  BY TrackedType DEF RecordInLedger, Typed
<1>2. RecordTree(a) => treeLedger' \in [Commitments -> Money \cup {NoMoney}]
  <2> DEFINE root == TreeRoot[a.commitment]
  <2>1. root \in Commitments /\ TreeSoFar(root) \in Nat
    BY TrackedType, RootType, MoneyAssumption DEF TreeSoFar, Typed, Money
  <2>2. [amount   |-> TreeSoFar(root) + a.to.amount.amount,
         currency |-> a.to.amount.currency] \in Money
    BY <2>1, TrackedType DEF Money
  <2>3. QED
    BY <2>1, <2>2 DEF RecordTree, Typed
<1>3. PayBack(a) => paid' \in [Commitments -> [Currencies -> Nat]]
  BY TrackedType DEF PayBack, Typed
<1>4. QED
  BY <1>1, <1>2, <1>3

-----------------------------------------------------------------------------

LEMMA InitType == Init => Typed
<1> SUFFICES ASSUME Init PROVE Typed
  OBVIOUS
<1>1. world \in [Commitments -> Commitment]
  BY SynthesizedType, RequestsAssumption DEF Init, InitialWorld
<1>2. QED
  BY <1>1 DEF Init, Typed

LEMMA NextType == Typed /\ [Proposes]_vars => Typed'
<1> SUFFICES ASSUME Typed, [Proposes]_vars PROVE Typed'
  OBVIOUS
<1>1. CASE UNCHANGED vars
  BY <1>1 DEF Typed, vars
<1>2. CASE Proposes
  <2> PICK a, expected : \E at \in Times : Proposable(a) /\ Propose(a, expected, at)
    BY <1>2 DEF Proposes
  <2> PICK at \in Times : Propose(a, expected, at)
    OBVIOUS
  <2>1. CASE Replay(a) \/ Conflict(a, expected) \/ Reject(a, expected, at)
    BY <2>1 DEF Replay, Conflict, Reject, Typed, vars
  <2>2. CASE RefundInPart(a, expected)
    BY <2>2, RecordType DEF RefundInPart, Refundable, Typed
  <2>3. CASE RefundInFull(a, expected, at)
    BY <2>3, RecordType, MoveInType DEF RefundInFull, Refundable, Typed
  <2>4. CASE RefundThrows(a, expected, at)
    BY <2>4, RecordType, MoveInType DEF RefundThrows, Refundable, Typed
  <2>5. CASE Advance(a, expected, at)
    <3>1. world' \in [Commitments -> Commitment] /\ a.commitment \in Commitments
      BY <2>5, MoveInType DEF Advance
    <3>2. paid' \in [Commitments -> [Currencies -> Nat]]
      <4>1. CASE a.to.type = "Refunded"
        <5>1. a.to.amount.amount \in Nat /\ a.to.amount.currency \in Currencies
          BY <4>1, ProposableType DEF Money
        <5>2. PayBack(a) /\ paid \in [Commitments -> [Currencies -> Nat]]
          BY <2>5, <4>1 DEF Advance, Typed
        <5>3. QED
          BY <3>1, <5>1, <5>2 DEF PayBack
      <4>2. CASE a.to.type # "Refunded"
        BY <2>5, <4>2 DEF Advance, Typed
      <4>3. QED
        BY <4>1, <4>2
    <3>3. QED
      BY <2>5, <3>1, <3>2 DEF Advance, Typed
  <2>6. QED
    BY <2>1, <2>2, <2>3, <2>4, <2>5 DEF Propose
<1>3. QED
  BY <1>1, <1>2

LEMMA NextKeys == applied \subseteq ActionKeys /\ [Next]_vars => (applied \subseteq ActionKeys)'
BY RequestType DEF Next, ProposeAnytime, Propose, Replay, Conflict, RefundInPart, RefundInFull, RefundThrows,
                   Advance, Reject, RecordKey, vars

\* The session's state keeps its type whatever is proposed, in any order.
THEOREM SessionType == Spec => []TypeOK
<1>1. Init => applied \subseteq ActionKeys
  BY DEF Init
<1>2. QED
  BY <1>1, InitType, NextType, NextKeys, NextProposes, TypedIsTypeOK, PTL DEF Spec

-----------------------------------------------------------------------------
(* Conservation.  PaidWithinCommitted is not inductive: what propose() reads is the *)
(* ledger, so the invariant ties the paybacks to the ledger and bounds the ledger.  *)

LedgerBounds ==
  \A c \in Commitments :
    Committed[c] # NoMoney =>
      /\ paid[c][Committed[c].currency] <= ledger[c]
      /\ ledger[c] < Committed[c].amount + Eps

\* The cumulative check leaves the new total under the committed amount plus the
\* tolerance.
LEMMA WithinOrderBound ==
  ASSUME Typed, NEW a, Proposable(a), Tracked(a), WithinOrder(a)
  PROVE  Cumulative(a) < Committed[a.commitment].amount + Eps
BY TrackedType, MoneyAssumption DEF WithinOrder, ExceedsCommitted, MoneyEquals, Money

\* Recording a tracked refund keeps LedgerBounds, whether or not it is paid back.
LEMMA RecordKeepsBounds ==
  ASSUME Typed, LedgerBounds, NEW a, Proposable(a), Tracked(a), WithinOrder(a),
         RecordInLedger(a), PayBack(a) \/ UNCHANGED paid
  PROVE  LedgerBounds'
<1> SUFFICES ASSUME NEW c \in Commitments, Committed[c] # NoMoney
             PROVE  /\ paid'[c][Committed[c].currency] <= ledger'[c]
                    /\ ledger'[c] < Committed[c].amount + Eps
  BY DEF LedgerBounds
<1> DEFINE m == Committed[c].currency
<1>1. /\ m \in Currencies /\ paid[c][m] \in Nat /\ ledger[c] \in Nat
      /\ paid[c][m] <= ledger[c] /\ ledger[c] < Committed[c].amount + Eps
  BY MoneyAssumption DEF Typed, LedgerBounds, Money
<1>2. CASE c = a.commitment
  <2>1. /\ ledger'[c] = ledger[c] + a.to.amount.amount
        /\ ledger'[c] < Committed[c].amount + Eps
        /\ a.to.amount.amount \in Nat /\ a.to.amount.currency = m
    BY <1>2, TrackedType, WithinOrderBound DEF RecordInLedger, Cumulative, Typed
  <2>2. paid'[c][m] = paid[c][m] + a.to.amount.amount \/ paid'[c][m] = paid[c][m]
    BY <1>1, <1>2, <2>1 DEF PayBack, Typed
  <2>3. QED
    BY <1>1, <2>1, <2>2
<1>3. CASE c # a.commitment
  BY <1>1, <1>3, TrackedType DEF RecordInLedger, PayBack, Typed
<1>4. QED
  BY <1>2, <1>3

\* A refund outside the ledgers is not in the committed currency.
LEMMA UntrackedCurrency ==
  ASSUME Typed, NEW a, Proposable(a), NEW expected, NEW at \in Times,
         Advance(a, expected, at), NEW c \in Commitments, Committed[c] # NoMoney
  PROVE  paid'[c][Committed[c].currency] = paid[c][Committed[c].currency]
<1>1. a.commitment \in Commitments /\ IsValidCommitmentTransition(world[a.commitment].state, a.to)
  BY MoveInType DEF Advance, TransitionOk
<1>2. Committed[c].currency \in Currencies
  BY MoneyAssumption DEF Money
<1>3. CASE a.to.type = "Refunded"
  <2>1. a.commitment = c => a.to.amount.currency # Committed[c].currency
    BY <1>1, <1>3 DEF Advance, Tracked, Known
  <2>2. a.to.amount.currency \in Currencies
    BY <1>3, ProposableType DEF Money
  <2>3. QED
    BY <1>1, <1>2, <1>3, <2>1, <2>2 DEF Advance, PayBack, Typed
<1>4. CASE a.to.type # "Refunded"
  BY <1>4 DEF Advance
<1>5. QED
  BY <1>3, <1>4

LEMMA InitBounds == Init => LedgerBounds
BY MoneyAssumption DEF Init, LedgerBounds, Money

LEMMA NextBounds == Typed /\ LedgerBounds /\ [Proposes]_vars => LedgerBounds'
<1> SUFFICES ASSUME Typed, LedgerBounds, [Proposes]_vars PROVE LedgerBounds'
  OBVIOUS
<1>1. CASE UNCHANGED vars
  BY <1>1 DEF LedgerBounds, vars
<1>2. CASE Proposes
  <2> PICK a, expected : \E at \in Times : Proposable(a) /\ Propose(a, expected, at)
    BY <1>2 DEF Proposes
  <2> PICK at \in Times : Propose(a, expected, at)
    OBVIOUS
  <2>1. CASE Replay(a) \/ Conflict(a, expected) \/ Reject(a, expected, at)
    BY <2>1 DEF Replay, Conflict, Reject, LedgerBounds, vars
  <2>2. CASE RefundInPart(a, expected)
    BY <2>2, RecordKeepsBounds DEF RefundInPart, Refundable
  <2>3. CASE RefundInFull(a, expected, at)
    BY <2>3, RecordKeepsBounds DEF RefundInFull, Refundable
  <2>4. CASE RefundThrows(a, expected, at)
    BY <2>4, RecordKeepsBounds DEF RefundThrows, Refundable
  <2>5. CASE Advance(a, expected, at)
    BY <2>5, UntrackedCurrency DEF Advance, LedgerBounds
  <2>6. QED
    BY <2>1, <2>2, <2>3, <2>4, <2>5 DEF Propose
<1>3. QED
  BY <1>1, <1>2

\* However the refunds of a commitment are sliced, retried, interleaved or cut short
\* by an exception, what is paid back in its currency stays within what was committed.
THEOREM Conservation == Spec => []PaidWithinCommitted
<1>1. Typed /\ LedgerBounds => PaidWithinCommitted
  <2> SUFFICES ASSUME Typed, LedgerBounds, NEW c \in Commitments, Committed[c] # NoMoney
               PROVE  paid[c][Committed[c].currency] < Committed[c].amount + Eps
    BY DEF PaidWithinCommitted
  <2>1. /\ paid[c][Committed[c].currency] \in Nat /\ ledger[c] \in Nat
        /\ Committed[c].amount \in Nat /\ Eps \in Nat
    BY MoneyAssumption DEF Typed, Money
  <2>2. QED
    BY <2>1 DEF LedgerBounds
<1>2. QED
  BY <1>1, InitType, NextType, InitBounds, NextBounds, NextProposes, PTL DEF Spec

-----------------------------------------------------------------------------
(* Histories.                                                              *)

LEMMA InitialWorldType == InitialWorld \in [Commitments -> Commitment]
BY SynthesizedType, RequestsAssumption DEF InitialWorld

LEMMA InitUnbroken == Init => HistoryUnbroken
BY SynthesizedType, RequestsAssumption DEF Init, InitialWorld, HistoryUnbroken

\* A move the guard accepts keeps every history unbroken.
LEMMA MoveInUnbroken ==
  ASSUME Typed, HistoryUnbroken, NEW a, Proposable(a), NEW expected, NEW at \in Times,
         Accepting(a, expected, at), world' = MoveIn(world, a, at)
  PROVE  HistoryUnbroken'
<1> SUFFICES ASSUME NEW c \in Commitments PROVE UnbrokenHistory(world'[c])
  BY DEF HistoryUnbroken
<1>1. CASE c = a.commitment
  <2>1. world[c] \in Commitment /\ UnbrokenHistory(world[c]) /\ at \in Nat
    BY RequestsAssumption DEF Typed, HistoryUnbroken
  <2>2. QED
    BY <1>1, <2>1, MoveInType, ProposableType, TransitionedUnbroken
<1>2. CASE c # a.commitment
  BY <1>2, MoveInType DEF HistoryUnbroken
<1>3. QED
  BY <1>1, <1>2

LEMMA NextUnbroken == Typed /\ HistoryUnbroken /\ [Proposes]_vars => HistoryUnbroken'
<1> SUFFICES ASSUME Typed, HistoryUnbroken, [Proposes]_vars PROVE HistoryUnbroken'
  OBVIOUS
<1>1. CASE world' = world
  BY <1>1 DEF HistoryUnbroken
<1>2. CASE world' # world
  <2> PICK a, expected : \E at \in Times : Proposable(a) /\ Propose(a, expected, at)
    BY <1>2 DEF Proposes, vars
  <2> PICK at \in Times : Propose(a, expected, at)
    OBVIOUS
  <2>1. Accepting(a, expected, at) /\ world' = MoveIn(world, a, at)
    BY <1>2 DEF Propose, Replay, Conflict, RefundInPart, RefundInFull, RefundThrows,
                Advance, Reject, vars
  <2>2. QED
    BY <2>1, MoveInUnbroken
<1>3. QED
  BY <1>1, <1>2

\* Every history stays one unbroken path from Draft to the present state.
THEOREM HistoriesUnbroken == Spec => []HistoryUnbroken
BY InitType, NextType, InitUnbroken, NextUnbroken, NextProposes, PTL DEF Spec

-----------------------------------------------------------------------------
(* The tree tally.                                                         *)

\* The tally of a tree stays within what its root committed.
TallyBounds ==
  \A r \in Commitments :
    /\ Committed[r] # NoMoney
    /\ treeLedger[r] # NoMoney
    /\ treeLedger[r].currency = Committed[r].currency
    => treeLedger[r].amount < Committed[r].amount + Eps

LEMMA NextTally == Typed /\ TallyBounds /\ [Proposes]_vars => TallyBounds'
<1> SUFFICES ASSUME Typed, TallyBounds, [Proposes]_vars PROVE TallyBounds'
  OBVIOUS
<1>1. CASE treeLedger' = treeLedger
  BY <1>1 DEF TallyBounds
<1>2. CASE treeLedger' # treeLedger
  <2> PICK a, expected : \E at \in Times : Proposable(a) /\ Propose(a, expected, at)
    BY <1>2 DEF Proposes, vars
  <2> PICK at \in Times : Propose(a, expected, at)
    OBVIOUS
  <2> DEFINE root == TreeRoot[a.commitment]
             total == TreeSoFar(root) + a.to.amount.amount
  <2>1. Refundable(a) /\ RecordTree(a)
    BY <1>2 DEF Propose, Replay, Conflict, RefundInPart, RefundInFull, RefundThrows,
                Advance, Reject, vars
  <2>2. a.commitment \in Commitments /\ IsInTree(a.commitment) /\ root \in Commitments
    BY <1>2, <2>1, TrackedType, RootType DEF Refundable, RecordTree
  <2>3. treeLedger' = [treeLedger EXCEPT ![root] = [amount   |-> total,
                                                    currency |-> a.to.amount.currency]]
    BY <2>1, <2>2 DEF RecordTree
  <2>4. ~ExceedsCommitted(root, total, a.to.amount.currency)
    BY <2>1, <2>2 DEF Refundable, WithinTree
  <2>5. total \in Nat
    BY <2>1, <2>2, TrackedType, MoneyAssumption DEF Refundable, TreeSoFar, Typed, Money
  <2>6. ASSUME Committed[root] # NoMoney, Committed[root].currency = a.to.amount.currency
        PROVE  total < Committed[root].amount + Eps
    <3> HIDE DEF total
    <3>1. QED
      BY <2>2, <2>4, <2>5, <2>6, MoneyAssumption DEF ExceedsCommitted, MoneyEquals, Money
  <2>7. QED
    <3> HIDE DEF total, root
    <3>1. QED
      BY <2>2, <2>3, <2>6 DEF TallyBounds, Typed
<1>3. QED
  BY <1>1, <1>2

\* The cap on a commitment tree: the tally propose() keeps for it never passes what
\* the root committed by more than the tolerance.
THEOREM TreeTallyWithinRoot == Spec => []TallyBounds
<1>1. Init => TallyBounds
  BY DEF Init, TallyBounds
<1>2. QED
  BY <1>1, InitType, NextType, NextTally, NextProposes, PTL DEF Spec

-----------------------------------------------------------------------------
(* What is paid back across a tree.  PaidWithinTree speaks of the paybacks, the   *)
(* tree check of the tally: the invariant covers the sum of the ones by the other *)
(* wherever every member is in the tree in the sense of the code.                 *)

PaidIn(r) == [c \in TreeOf(r) |-> paid[c][Committed[r].currency]]

TreeCovered ==
  \A r \in Commitments :
    WellFormedTree(r) =>
      /\ treeLedger[r] # NoMoney => treeLedger[r].currency = Committed[r].currency
      /\ (\A c \in TreeOf(r) : IsInTree(c))
           => SumFunctionOnSet(PaidIn(r), TreeOf(r)) <= TreeSoFar(r)

LEMMA TreeOfType ==
  ASSUME NEW r \in Commitments
  PROVE  TreeOf(r) \subseteq Commitments /\ IsFiniteSet(TreeOf(r))
BY CommitmentsAssumption, FS_Subset DEF TreeOf

\* A commitment below r has a parent pointer to r on its way there.
LEMMA RootHasChild ==
  ASSUME NEW c \in Commitments, NEW r \in Commitments, TreeRoot[c] = r, c # r
  PROVE  ChildrenByPointer(r) # {}
<1>1. r \in AncestorLine(c)
  BY ForestAssumption DEF TreeRoot
<1>2. \E x \in Commitments \ {r} : Up(x) \notin Commitments \ {r}
  BY <1>1 DEF AncestorLine
<1>3. QED
  BY <1>2 DEF Up, ChildrenByPointer

\* In a well-formed tree with a member the code does not count as in a tree, that
\* member is alone.
LEMMA LoneMember ==
  ASSUME NEW r \in Commitments, WellFormedTree(r), NEW c \in TreeOf(r), ~IsInTree(c)
  PROVE  TreeOf(r) = {r}
<1>1. c = r /\ c \in Commitments
  BY DEF TreeOf, IsInTree
<1>2. ChildrenByPointer(r) = {}
  BY <1>1 DEF WellFormedTree, IsInTree
<1>3. QED
  BY <1>1, <1>2, RootHasChild DEF TreeOf

\* A refund paid back is counted in the tally of its tree.
LEMMA RecordKeepsTree ==
  ASSUME Typed, TreeCovered, NEW a, Proposable(a), Tracked(a), RecordTree(a), PayBack(a)
  PROVE  TreeCovered'
<1> DEFINE c == a.commitment
           root == TreeRoot[c]
           n == a.to.amount.amount
<1>1. /\ c \in Commitments /\ n \in Nat
      /\ Committed[c] # NoMoney /\ Committed[c].currency = a.to.amount.currency
      /\ a.to.amount.currency \in Currencies /\ root \in Commitments
  BY TrackedType, RootType, MoneyAssumption
<1> SUFFICES ASSUME NEW r \in Commitments, WellFormedTree(r)
             PROVE  /\ treeLedger'[r] # NoMoney => treeLedger'[r].currency = Committed[r].currency
                    /\ (\A d \in TreeOf(r) : IsInTree(d))
                         => SumFunctionOnSet(PaidIn(r)', TreeOf(r)) <= TreeSoFar(r)'
  BY DEF TreeCovered, WellFormedTree, TreeOf, PaidIn, IsInTree, Up, ChildrenByPointer
<1> DEFINE m == Committed[r].currency
<1>2. /\ TreeOf(r) \subseteq Commitments /\ IsFiniteSet(TreeOf(r))
      /\ PaidIn(r)' = [d \in TreeOf(r) |-> paid'[d][m]]
      /\ PaidIn(r) = [d \in TreeOf(r) |-> paid[d][m]]
      /\ TreeSoFar(r)' = IF treeLedger'[r] = NoMoney THEN 0 ELSE treeLedger'[r].amount
  BY TreeOfType DEF PaidIn, TreeOf, TreeSoFar
<1>3. CASE r # root
  <2>1. treeLedger'[r] = treeLedger[r] /\ TreeSoFar(r)' = TreeSoFar(r)
    BY <1>1, <1>2, <1>3 DEF RecordTree, Typed, TreeSoFar
  <2>2. c \notin TreeOf(r)
    BY <1>3 DEF TreeOf
  <2>3. PaidIn(r)' = PaidIn(r)
    BY <1>1, <1>2, <2>2 DEF PayBack, Typed
  <2>4. QED
    BY <2>1, <2>3 DEF TreeCovered
<1>4. CASE r = root
  <2>1. c \in TreeOf(r) /\ a.to.amount.currency = m /\ m \in Currencies
    BY <1>1, <1>4 DEF TreeOf, WellFormedTree
  <2>2. CASE ~IsInTree(c)
    BY <2>1, <2>2 DEF RecordTree, TreeCovered
  <2>3. CASE IsInTree(c)
    <3>1. treeLedger'[r] = [amount |-> TreeSoFar(r) + n, currency |-> m]
      BY <1>1, <1>4, <2>1, <2>3 DEF RecordTree, Typed
    <3>2. treeLedger'[r] # NoMoney /\ TreeSoFar(r)' = TreeSoFar(r) + n
      <4>1. TreeSoFar(r) \in Nat
        BY MoneyAssumption DEF TreeSoFar, Typed, Money
      <4>2. [amount |-> TreeSoFar(r) + n, currency |-> m] \in Money
        BY <1>1, <2>1, <4>1 DEF Money
      <4>3. QED
        BY <1>2, <3>1, <4>2, MoneyAssumption
    <3>3. SumFunctionOnSet(PaidIn(r)', TreeOf(r)) = SumFunctionOnSet(PaidIn(r), TreeOf(r)) + n
      <4>1. \A d \in TreeOf(r) : PaidIn(r)[d] \in Int
        BY <1>2, <2>1 DEF Typed
      <4>2. \A d \in TreeOf(r) \ {c} : PaidIn(r)'[d] = PaidIn(r)[d]
        BY <1>1, <1>2 DEF PayBack, Typed
      <4>3. PaidIn(r)'[c] = PaidIn(r)[c] + n
        BY <1>1, <1>2, <2>1 DEF PayBack, Typed
      <4>4. n \in Int
        BY <1>1
      <4> HIDE DEF n, c
      <4>5. QED
        BY <1>2, <2>1, <4>1, <4>2, <4>3, <4>4, SumUpdate
    <3>4. /\ SumFunctionOnSet(PaidIn(r), TreeOf(r)) \in Int
          /\ TreeSoFar(r) \in Nat
      <4>1. \A d \in TreeOf(r) : PaidIn(r)[d] \in Int
        BY <1>2, <2>1 DEF Typed
      <4>2. QED
        BY <1>2, <4>1, SumType, MoneyAssumption DEF TreeSoFar, Typed, Money
    <3>5. treeLedger'[r].currency = m
      BY <3>1
    <3> HIDE DEF n, c
    <3>6. QED
      BY <1>1, <3>5, <3>2, <3>3, <3>4 DEF TreeCovered
  <2>4. QED
    BY <2>2, <2>3
<1>5. QED
  BY <1>3, <1>4

LEMMA NextCovered == Typed /\ TreeCovered /\ [Proposes]_vars => TreeCovered'
<1> SUFFICES ASSUME Typed, TreeCovered, [Proposes]_vars PROVE TreeCovered'
  OBVIOUS
<1>1. ASSUME treeLedger' = treeLedger,
             \A c \in Commitments : Committed[c] # NoMoney =>
               paid'[c][Committed[c].currency] = paid[c][Committed[c].currency]
      PROVE  TreeCovered'
  <2> SUFFICES ASSUME NEW r \in Commitments, WellFormedTree(r)
               PROVE  PaidIn(r)' = PaidIn(r) /\ TreeSoFar(r)' = TreeSoFar(r)
    BY <1>1 DEF TreeCovered, WellFormedTree, TreeOf, IsInTree, Up, ChildrenByPointer
  <2>1. \A c \in TreeOf(r) : /\ c \in Commitments /\ Committed[c] # NoMoney
                             /\ Committed[c].currency = Committed[r].currency
    BY DEF WellFormedTree, TreeOf
  <2>2. PaidIn(r)' = [c \in TreeOf(r) |-> paid'[c][Committed[r].currency]]
    BY DEF PaidIn, TreeOf
  <2>3. QED
    BY <1>1, <2>1, <2>2 DEF PaidIn, TreeSoFar
<1>2. CASE UNCHANGED vars
  BY <1>1, <1>2 DEF vars
<1>3. CASE Proposes
  <2> PICK a, expected : \E at \in Times : Proposable(a) /\ Propose(a, expected, at)
    BY <1>3 DEF Proposes
  <2> PICK at \in Times : Propose(a, expected, at)
    OBVIOUS
  <2>1. CASE Replay(a) \/ Conflict(a, expected) \/ Reject(a, expected, at)
    BY <1>2, <2>1 DEF Replay, Conflict, Reject
  <2>2. CASE RefundInPart(a, expected)
    BY <2>2, RecordKeepsTree DEF RefundInPart, Refundable
  <2>3. CASE RefundInFull(a, expected, at)
    BY <2>3, RecordKeepsTree DEF RefundInFull, Refundable
  <2>4. CASE RefundThrows(a, expected, at)
    BY <1>1, <2>4 DEF RefundThrows
  <2>5. CASE Advance(a, expected, at)
    BY <1>1, <2>5, UntrackedCurrency DEF Advance
  <2>6. QED
    BY <2>1, <2>2, <2>3, <2>4, <2>5 DEF Propose
<1>4. QED
  BY <1>2, <1>3

LEMMA InitCovered == Init => TreeCovered
<1> SUFFICES ASSUME Init, NEW r \in Commitments, WellFormedTree(r)
             PROVE  SumFunctionOnSet(PaidIn(r), TreeOf(r)) <= TreeSoFar(r)
  BY DEF TreeCovered, Init
<1>1. TreeSoFar(r) = 0
  BY DEF Init, TreeSoFar
<1>2. \A c \in TreeOf(r) : PaidIn(r)[c] = 0
  BY TreeOfType, MoneyAssumption DEF Init, PaidIn, WellFormedTree, Money
<1>3. SumFunctionOnSet(PaidIn(r), TreeOf(r)) = 0
  BY <1>2, TreeOfType, SumOfZeros
<1>4. QED
  BY <1>1, <1>3

\* The tallies and the ledgers between them bound what is paid back across a tree.
LEMMA CoveredIsWithin ==
  Typed /\ LedgerBounds /\ TallyBounds /\ TreeCovered => PaidWithinTree
<1> SUFFICES ASSUME Typed, LedgerBounds, TallyBounds, TreeCovered,
                    NEW r \in Commitments, WellFormedTree(r)
             PROVE  SumFunctionOnSet(PaidIn(r), TreeOf(r)) < Committed[r].amount + Eps
  BY DEF PaidWithinTree, PaidIn
<1>1. /\ \A c \in TreeOf(r) : c \in Commitments /\ Committed[c] # NoMoney
      /\ \A c \in TreeOf(r) : PaidIn(r)[c] = paid[c][Committed[r].currency]
  BY DEF WellFormedTree, TreeOf, PaidIn
<1>2. CASE \A c \in TreeOf(r) : IsInTree(c)
  <2>1. SumFunctionOnSet(PaidIn(r), TreeOf(r)) <= TreeSoFar(r)
    BY <1>2 DEF TreeCovered
  <2>2. Committed[r] # NoMoney
    BY RootOfRoot, <1>1 DEF WellFormedTree, TreeOf
  <2>3. TreeSoFar(r) < Committed[r].amount + Eps /\ TreeSoFar(r) \in Nat
    <3>1. Committed[r].amount \in Nat /\ Eps \in Nat \ {0}
      BY <2>2, MoneyAssumption DEF Money
    <3>2. QED
      BY <2>2, <3>1, MoneyAssumption DEF TreeSoFar, TreeCovered, TallyBounds, Typed, Money
  <2>4. SumFunctionOnSet(PaidIn(r), TreeOf(r)) \in Int
    <3>1. \A c \in TreeOf(r) : PaidIn(r)[c] \in Int
      BY <1>1, <2>2, MoneyAssumption DEF Typed, Money
    <3>2. QED
      BY <3>1, TreeOfType, SumType
  <2>5. Committed[r].amount \in Nat /\ Eps \in Nat
    BY <2>2, MoneyAssumption DEF Money
  <2>6. QED
    BY <2>1, <2>3, <2>4, <2>5
<1>3. ASSUME NEW c \in TreeOf(r), ~IsInTree(c)
      PROVE  SumFunctionOnSet(PaidIn(r), TreeOf(r)) < Committed[r].amount + Eps
  <2>1. TreeOf(r) = {r}
    BY <1>3, LoneMember
  <2>2. Committed[r] # NoMoney /\ PaidIn(r)[r] = paid[r][Committed[r].currency]
    BY <1>1, <2>1
  <2>3. /\ paid[r][Committed[r].currency] \in Nat /\ ledger[r] \in Nat
        /\ Committed[r].amount \in Nat /\ Eps \in Nat
    BY <2>2, MoneyAssumption DEF Typed, Money
  <2>4. SumFunctionOnSet(PaidIn(r), {r}) = paid[r][Committed[r].currency]
    BY <2>2, <2>3, SumSingleton
  <2>5. QED
    BY <2>1, <2>2, <2>3, <2>4 DEF LedgerBounds
<1>4. QED
  BY <1>2, <1>3

\* Whichever members of a tree refunds are taken from, in whatever order, however deep
\* the tree is and even past an exception, they stay within what its root committed.
THEOREM TreesConserve == Spec => []PaidWithinTree
<1>1. Init => TallyBounds
  BY DEF Init, TallyBounds
<1>2. QED
  BY <1>1, InitType, NextType, InitBounds, NextBounds, NextTally, InitCovered, NextCovered,
     NextProposes, CoveredIsWithin, PTL DEF Spec

-----------------------------------------------------------------------------
(* Trees of one currency: propose() never throws, so the ledger is exactly *)
(* what was paid back, each key takes effect once, and the state of a      *)
(* commitment tells whether it was paid back in full.                      *)

\* A tally is in the currency of a priced member of its tree.
TallyCurrency ==
  \A r \in Commitments :
    treeLedger[r] # NoMoney =>
      \E c \in Commitments : /\ TreeRoot[c] = r
                            /\ Committed[c] # NoMoney
                            /\ Committed[c].currency = treeLedger[r].currency

LedgerExact ==
  \A c \in Commitments :
    Committed[c] # NoMoney => paid[c][Committed[c].currency] = ledger[c]

UniformInv == Typed /\ TallyCurrency /\ LedgerExact /\ RefundedMeansPaidInFull

\* In a tree of one currency add() does not throw.
LEMMA NoClash ==
  ASSUME UniformTrees, Typed, TallyCurrency, NEW a, Proposable(a), Tracked(a)
  PROVE  ~TallyClashes(a)
BY TrackedType, RootType, MoneyAssumption DEF UniformTrees, TallyCurrency, TallyClashes, Money

\* Recording a tracked refund and paying it back, in terms of the ledger.
LEMMA RecordExact ==
  ASSUME Typed, LedgerExact, NEW a, Proposable(a), Tracked(a), RecordInLedger(a), PayBack(a)
  PROVE  /\ LedgerExact'
         /\ paid'[a.commitment][Committed[a.commitment].currency] = Cumulative(a)
         /\ \A c \in Commitments \ {a.commitment} : paid'[c] = paid[c]
<1>1. /\ a.commitment \in Commitments /\ a.to.amount.currency \in Currencies
      /\ Committed[a.commitment] # NoMoney
      /\ Committed[a.commitment].currency = a.to.amount.currency
  BY TrackedType, MoneyAssumption
<1>2. paid'[a.commitment][Committed[a.commitment].currency] = Cumulative(a)
  BY <1>1 DEF PayBack, Cumulative, LedgerExact, Typed
<1>3. \A c \in Commitments \ {a.commitment} : paid'[c] = paid[c] /\ ledger'[c] = ledger[c]
  BY <1>1 DEF PayBack, RecordInLedger, Typed
<1>4. ledger'[a.commitment] = Cumulative(a)
  BY <1>1 DEF RecordInLedger, Typed
<1>5. QED
  BY <1>2, <1>3, <1>4 DEF LedgerExact

\* No transition leaves Refunded.
LEMMA RefundedIsTerminal ==
  ASSUME NEW s \in States, NEW to, IsValidCommitmentTransition(s, to)
  PROVE  s.type # "Refunded" /\ s.type # "Cancelled"
BY DEF IsValidCommitmentTransition, CommitmentTransitions, States

LEMMA RecordTallyCurrency ==
  ASSUME Typed, TallyCurrency, NEW a, Proposable(a), Tracked(a), RecordTree(a)
  PROVE  TallyCurrency'
<1> DEFINE root == TreeRoot[a.commitment]
           tally == [amount |-> TreeSoFar(root) + a.to.amount.amount,
                     currency |-> a.to.amount.currency]
<1>1. /\ a.commitment \in Commitments /\ root \in Commitments
      /\ Committed[a.commitment] # NoMoney
      /\ Committed[a.commitment].currency = a.to.amount.currency
  BY TrackedType, RootType, MoneyAssumption
<1>2. CASE treeLedger' = treeLedger
  BY <1>2 DEF TallyCurrency
<1>3. CASE treeLedger' = [treeLedger EXCEPT ![root] = tally]
  <2>1. tally.currency = a.to.amount.currency
    OBVIOUS
  <2> HIDE DEF tally, root
  <2>2. TreeRoot[a.commitment] = root
    BY DEF root
  <2>3. QED
    BY <1>1, <1>3, <2>1, <2>2 DEF TallyCurrency, Typed
<1>4. QED
  BY <1>2, <1>3 DEF RecordTree

\* A refund that only the ledgers record leaves the two views of it in agreement.
LEMMA PartKeepsAgreement ==
  ASSUME UniformInv, NEW a, Proposable(a), NEW expected, RefundInPart(a, expected)
  PROVE  RefundedMeansPaidInFull'
<1>1. /\ Tracked(a) /\ RecordInLedger(a) /\ PayBack(a) /\ world' = world
      /\ ~SettlesInFull(a)
  BY DEF RefundInPart, Refundable
<1>2. /\ a.commitment \in Commitments
      /\ paid'[a.commitment][Committed[a.commitment].currency] = Cumulative(a)
      /\ \A c \in Commitments \ {a.commitment} : paid'[c] = paid[c]
  BY <1>1, RecordExact, TrackedType DEF UniformInv
<1>3. world[a.commitment].state.type # "Refunded"
  BY <1>1, <1>2, RefundedIsTerminal DEF Tracked, UniformInv, Typed, Commitment
<1>4. QED
  BY <1>1, <1>2, <1>3 DEF UniformInv, RefundedMeansPaidInFull, SettlesInFull

\* The refund that settles a commitment also moves it to Refunded.
LEMMA FullKeepsAgreement ==
  ASSUME UniformInv, NEW a, Proposable(a), NEW expected, NEW at \in Times,
         RefundInFull(a, expected, at)
  PROVE  RefundedMeansPaidInFull'
<1>1. /\ Tracked(a) /\ RecordInLedger(a) /\ PayBack(a) /\ SettlesInFull(a)
      /\ Accepting(a, expected, at) /\ world' = MoveIn(world, a, at)
  BY DEF RefundInFull, Refundable
<1>2. /\ a.commitment \in Commitments
      /\ paid'[a.commitment][Committed[a.commitment].currency] = Cumulative(a)
      /\ \A c \in Commitments \ {a.commitment} : paid'[c] = paid[c]
  BY <1>1, RecordExact, TrackedType DEF UniformInv
<1>3. /\ world'[a.commitment].state = a.to
      /\ \A c \in Commitments \ {a.commitment} : world'[c] = world[c]
  BY <1>1, MoveInType DEF UniformInv
<1>4. QED
  BY <1>1, <1>2, <1>3 DEF UniformInv, RefundedMeansPaidInFull, SettlesInFull, Tracked

\* Other moves start from a state that is not Refunded, and do not enter it in the
\* committed currency.
LEMMA AdvanceKeepsAgreement ==
  ASSUME UniformInv, NEW a, Proposable(a), NEW expected, NEW at \in Times,
         Advance(a, expected, at)
  PROVE  RefundedMeansPaidInFull'
<1> SUFFICES ASSUME NEW c \in Commitments, Committed[c] # NoMoney
             PROVE  LET total == paid'[c][Committed[c].currency]
                        full == MoneyEquals(total, Committed[c].amount)
                    IN /\ total > 0 /\ full => world'[c].state.type = "Refunded"
                       /\ /\ world'[c].state.type = "Refunded"
                          /\ Initially[c].type # "Refunded"
                          /\ world'[c].state.amount.currency = Committed[c].currency
                          => full
  BY DEF RefundedMeansPaidInFull
<1>1. paid'[c][Committed[c].currency] = paid[c][Committed[c].currency]
  BY UntrackedCurrency DEF UniformInv
<1>2. /\ a.commitment \in Commitments
      /\ IsValidCommitmentTransition(world[a.commitment].state, a.to)
      /\ world'[a.commitment].state = a.to
      /\ \A d \in Commitments \ {a.commitment} : world'[d] = world[d]
  BY MoveInType DEF Advance, UniformInv, TransitionOk
<1>3. CASE c # a.commitment
  BY <1>1, <1>2, <1>3 DEF UniformInv, RefundedMeansPaidInFull
<1>4. CASE c = a.commitment
  <2>1. world[c].state.type # "Refunded"
    BY <1>2, <1>4, RefundedIsTerminal DEF UniformInv, Typed, Commitment
  <2>2. ~(a.to.type = "Refunded" /\ a.to.amount.currency = Committed[c].currency)
    BY <1>2, <1>4 DEF Advance, Tracked, Known
  <2>3. QED
    BY <1>1, <1>2, <1>4, <2>1, <2>2 DEF UniformInv, RefundedMeansPaidInFull
<1>5. QED
  BY <1>3, <1>4

LEMMA InitUniform == Init => UniformInv
<1> SUFFICES ASSUME Init PROVE UniformInv
  OBVIOUS
<1>1. \A c \in Commitments : world[c].state = Initially[c]
  BY SynthesizedType, RequestsAssumption DEF Init, InitialWorld, Synthesized
<1>2. TallyCurrency /\ LedgerExact
  BY MoneyAssumption DEF Init, TallyCurrency, LedgerExact, Money
<1>3. RefundedMeansPaidInFull
  <2> SUFFICES ASSUME NEW c \in Commitments, Committed[c] # NoMoney
               PROVE  paid[c][Committed[c].currency] = 0 /\ world[c].state = Initially[c]
    BY DEF RefundedMeansPaidInFull
  <2>1. QED
    BY <1>1, MoneyAssumption DEF Init, Money
<1>4. QED
  BY <1>2, <1>3, InitType DEF UniformInv

LEMMA NextUniform ==
  ASSUME UniformTrees, UniformInv, [Proposes]_vars
  PROVE  UniformInv'
<1>1. Typed'
  BY NextType DEF UniformInv
<1>2. CASE UNCHANGED vars
  BY <1>1, <1>2 DEF UniformInv, TallyCurrency, LedgerExact, RefundedMeansPaidInFull, vars
<1>3. CASE Proposes
  <2> PICK a, expected : \E at \in Times : Proposable(a) /\ Propose(a, expected, at)
    BY <1>3 DEF Proposes
  <2> PICK at \in Times : Propose(a, expected, at)
    OBVIOUS
  <2>1. CASE Replay(a) \/ Conflict(a, expected) \/ Reject(a, expected, at)
    BY <1>2, <2>1 DEF Replay, Conflict, Reject
  <2>2. CASE RefundInPart(a, expected)
    BY <1>1, <2>2, PartKeepsAgreement, RecordExact, RecordTallyCurrency
    DEF UniformInv, RefundInPart, Refundable
  <2>3. CASE RefundInFull(a, expected, at)
    BY <1>1, <2>3, FullKeepsAgreement, RecordExact, RecordTallyCurrency
    DEF UniformInv, RefundInFull, Refundable
  <2>4. ~RefundThrows(a, expected, at)
    BY NoClash DEF UniformInv, RefundThrows, Refundable
  <2>5. CASE Advance(a, expected, at)
    <3>1. LedgerExact'
      BY <2>5, UntrackedCurrency DEF UniformInv, LedgerExact, Advance
    <3>2. TallyCurrency'
      BY <2>5 DEF UniformInv, TallyCurrency, Advance
    <3>3. QED
      BY <1>1, <2>5, <3>1, <3>2, AdvanceKeepsAgreement DEF UniformInv
  <2>6. QED
    BY <2>1, <2>2, <2>3, <2>4, <2>5 DEF Propose
<1>4. QED
  BY <1>2, <1>3

\* In a world whose trees have one currency, a commitment is Refunded exactly when
\* its refunds add up to what it committed.
THEOREM RefundsAgree ==
  ASSUME UniformTrees
  PROVE  Spec => []RefundedMeansPaidInFull
<1>1. UniformInv /\ [Proposes]_vars => UniformInv'
  BY NextUniform
<1>2. UniformInv => RefundedMeansPaidInFull
  BY DEF UniformInv
<1>3. QED
  BY <1>1, <1>2, InitUniform, NextProposes, PTL DEF Spec

\* There too, whatever pays money back or moves a commitment records a key that was
\* not recorded before: each action takes effect once.
THEOREM EachKeyOnce ==
  ASSUME UniformTrees
  PROVE  Spec => AppliedOnce
<1>1. UniformInv /\ [Proposes]_vars => UniformInv'
  BY NextUniform
<1>2. UniformInv /\ [Next]_vars =>
        [(paid' # paid \/ world' # world) => (applied \subseteq applied' /\ applied' # applied)]_vars
  <2> SUFFICES ASSUME UniformInv, Next, paid' # paid \/ world' # world
               PROVE  applied \subseteq applied' /\ applied' # applied
    BY DEF vars
  <2> PICK a \in Requests :
        \E expected \in PlannedVersions(a), at \in Times : BelowBound(a) /\ Propose(a, expected, at)
    BY DEF Next, ProposeAnytime
  <2> PICK expected \in PlannedVersions(a), at \in Times : Propose(a, expected, at)
    OBVIOUS
  <2>1. ~RefundThrows(a, expected, at)
    BY RequestType, NoClash DEF UniformInv, RefundThrows, Refundable
  <2>2. ~IsReplay(a) /\ RecordKey(a)
    BY <2>1 DEF Propose, Replay, Conflict, RefundInPart, RefundInFull, Advance, Reject, Fresh, vars
  <2>3. QED
    BY <2>2 DEF IsReplay, RecordKey
<1>3. QED
  BY <1>1, <1>2, InitUniform, NextProposes, PTL DEF Spec, AppliedOnce

-----------------------------------------------------------------------------
(* Refinement: in trees of one currency the session implements the refund  *)
(* account of RefundAccount, step by step.                                 *)

phases == [c \in Commitments |-> Phase(world[c].state.type)]

\* A commitment a legal transition leaves is open, and a move sets its phase alone.
LEMMA OpenBeforeMove ==
  ASSUME Typed, NEW c \in Commitments, NEW to, IsValidCommitmentTransition(world[c].state, to)
  PROVE  phases[c] = "open"
BY RefundedIsTerminal DEF Typed, Commitment, phases, Phase

LEMMA MovePhase ==
  ASSUME Typed, NEW a, Proposable(a), NEW expected, NEW at \in Times,
         Accepting(a, expected, at), world' = MoveIn(world, a, at)
  PROVE  /\ a.commitment \in Commitments
         /\ phases[a.commitment] = "open"
         /\ phases' = [phases EXCEPT ![a.commitment] = Phase(a.to.type)]
<1>1. /\ a.commitment \in Commitments
      /\ IsValidCommitmentTransition(world[a.commitment].state, a.to)
      /\ world'[a.commitment].state = a.to
      /\ \A c \in Commitments \ {a.commitment} : world'[c] = world[c]
  BY MoveInType DEF TransitionOk
<1>2. phases[a.commitment] = "open"
  BY <1>1, OpenBeforeMove
<1>3. phases' = [phases EXCEPT ![a.commitment] = Phase(a.to.type)]
  BY <1>1 DEF phases
<1>4. QED
  BY <1>1, <1>2, <1>3

\* What the session counts for a tree is what the account counts.
LEMMA CountsInTree ==
  ASSUME Typed, NEW a, Proposable(a), Refundable(a), RecordTree(a)
  PROVE  Account!CountInTree(a.commitment, a.to.amount)
<1> DEFINE root == TreeRoot[a.commitment]
           total == TreeSoFar(root) + a.to.amount.amount
<1>1. /\ a.commitment \in Commitments /\ root \in Commitments
      /\ a.to.amount.amount \in Nat
  BY TrackedType, RootType DEF Refundable
<1>2. Account!SpentInTree(root) = TreeSoFar(root) /\ total \in Nat
  BY <1>1, MoneyAssumption DEF Account!SpentInTree, TreeSoFar, Typed, Money
<1>3. CASE IsInTree(a.commitment)
  <2>1. ~ExceedsCommitted(root, total, a.to.amount.currency)
    BY <1>3 DEF Refundable, WithinTree
  <2>2. ASSUME Committed[root] # NoMoney, Committed[root].currency = a.to.amount.currency
        PROVE  Account!Within(Committed[root], total)
    <3>1. Committed[root].amount \in Nat /\ Eps \in Nat \ {0}
      BY <1>1, <2>2, MoneyAssumption DEF Money
    <3> HIDE DEF total
    <3>2. QED
      BY <1>1, <1>2, <2>1, <2>2, <3>1 DEF ExceedsCommitted, MoneyEquals, Account!Within
  <2>3. QED
    BY <1>1, <1>2, <1>3, <2>2 DEF RecordTree, Account!CountInTree
<1>4. CASE ~IsInTree(a.commitment)
  BY <1>4 DEF RecordTree, Account!CountInTree
<1>5. QED
  BY <1>3, <1>4

\* A tracked refund that is paid back is a PayBack of the account, when the state of
\* its commitment moves with it exactly on settling.
LEMMA RefundIsPayBack ==
  ASSUME UniformInv, NEW a, Proposable(a), Refundable(a),
         RecordInLedger(a), RecordTree(a), PayBack(a),
         phases' = [phases EXCEPT ![a.commitment] = IF SettlesInFull(a) THEN "refunded" ELSE "open"]
  PROVE  Account!PayBack(a.commitment, a.to.amount)
<1>1. /\ Tracked(a) /\ Typed /\ LedgerExact
      /\ a.commitment \in Commitments
      /\ Committed[a.commitment] \in Money /\ Committed[a.commitment] # NoMoney
      /\ Committed[a.commitment].currency = a.to.amount.currency
      /\ Cumulative(a) \in Nat
  BY TrackedType DEF Refundable, UniformInv, Tracked
<1>2. paid[a.commitment][a.to.amount.currency] + a.to.amount.amount = Cumulative(a)
  BY <1>1 DEF LedgerExact, Cumulative
<1>3. phases[a.commitment] = "open"
  BY <1>1, OpenBeforeMove DEF Tracked
<1>4. Account!Within(Committed[a.commitment], Cumulative(a))
  BY <1>1, WithinOrderBound DEF Refundable, Account!Within
<1>5. Account!Full(Committed[a.commitment], Cumulative(a)) <=> SettlesInFull(a)
  BY DEF Account!Full, SettlesInFull, MoneyEquals
<1>6. Account!CountInTree(a.commitment, a.to.amount)
  BY <1>1, CountsInTree
<1>7. QED
  BY <1>1, <1>2, <1>3, <1>4, <1>5, <1>6 DEF Account!PayBack, Account!Release, PayBack, phases

LEMMA InitRefines == Init => Account!Init
<1> SUFFICES ASSUME Init PROVE Account!Init
  OBVIOUS
<1>1. \A c \in Commitments : world[c].state.type = Initially[c].type
  BY SynthesizedType, RequestsAssumption DEF Init, InitialWorld, Synthesized
<1>2. QED
  BY <1>1 DEF Init, Account!Init

LEMMA NextRefines ==
  ASSUME UniformTrees, UniformInv, [Next]_vars
  PROVE  [Account!Next]_(Account!accountVars)
<1>1. CASE UNCHANGED vars
  BY <1>1 DEF vars, Account!accountVars
<1>2. CASE Next
  <2> PICK a \in Requests :
        \E expected \in PlannedVersions(a), at \in Times : BelowBound(a) /\ Propose(a, expected, at)
    BY <1>2 DEF Next, ProposeAnytime
  <2> PICK expected \in PlannedVersions(a), at \in Times : Propose(a, expected, at)
    OBVIOUS
  <2>0. Proposable(a) /\ ActionKey(a) \in ActionKeys
    BY RequestType
  <2> DEFINE c == a.commitment
             m == a.to.amount
  <2>1. CASE Replay(a) \/ Conflict(a, expected) \/ Reject(a, expected, at)
    BY <1>1, <2>1 DEF Replay, Conflict, Reject
  <2>2. ~RefundThrows(a, expected, at)
    BY <2>0, NoClash DEF UniformInv, RefundThrows, Refundable
  <2>3. ASSUME Fresh(a, expected), RecordKey(a)
        PROVE  ActionKey(a) \in ActionKeys \ applied /\ applied' = applied \cup {ActionKey(a)}
    BY <2>0, <2>3 DEF Fresh, IsReplay, RecordKey
  <2>4. ASSUME a.to.type = "Refunded"
        PROVE  m \in {r.to.amount : r \in Requests} \ {NoMoney}
    BY <2>0, <2>4, ProposableType, MoneyAssumption
  <2>5. ASSUME Refundable(a)
        PROVE  c \in Commitments /\ m \in {r.to.amount : r \in Requests} \ {NoMoney}
    BY <2>4, <2>5, <2>0, TrackedType DEF Refundable, Tracked, UniformInv
  <2>6. CASE RefundInPart(a, expected)
    <3>1. phases[c] = "open" /\ world' = world
      BY <2>5, <2>6, <2>0, OpenBeforeMove DEF RefundInPart, Refundable, Tracked, UniformInv
    <3>2. phases' = [phases EXCEPT ![c] = IF SettlesInFull(a) THEN "refunded" ELSE "open"]
      BY <2>5, <2>6, <3>1 DEF RefundInPart, phases
    <3>3. Account!PayBack(c, m)
      BY <2>6, <3>2, <2>0, RefundIsPayBack DEF RefundInPart
    <3>4. QED
      BY <2>3, <2>5, <2>6, <3>3 DEF RefundInPart, Account!Next
  <2>7. CASE RefundInFull(a, expected, at)
    <3>1. phases' = [phases EXCEPT ![c] = IF SettlesInFull(a) THEN "refunded" ELSE "open"]
      BY <2>7, <2>0, MovePhase DEF RefundInFull, Refundable, Tracked, Phase, UniformInv
    <3>2. Account!PayBack(c, m)
      BY <2>7, <3>1, <2>0, RefundIsPayBack DEF RefundInFull
    <3>3. QED
      BY <2>3, <2>5, <2>7, <3>2 DEF RefundInFull, Account!Next
  <2>8. CASE Advance(a, expected, at)
    <3>1. /\ c \in Commitments /\ phases[c] = "open"
          /\ phases' = [phases EXCEPT ![c] = Phase(a.to.type)]
          /\ IsValidCommitmentTransition(world[c].state, a.to)
      BY <2>8, <2>0, MovePhase, MoveInType DEF Advance, UniformInv, TransitionOk
    <3>2. CASE a.to.type = "Refunded"
      <4>1. Committed[c] = NoMoney \/ Committed[c].currency # m.currency
        BY <2>8, <3>1, <3>2 DEF Advance, Tracked, Known
      <4>2. Account!PayOtherwise(c, m)
        BY <2>8, <3>1, <3>2, <4>1
        DEF Advance, PayBack, Account!PayOtherwise, Account!Release, Phase, phases
      <4>3. QED
        BY <2>3, <2>4, <2>8, <3>1, <3>2, <4>2 DEF Advance, Account!Next
    <3>3. CASE a.to.type # "Refunded"
      <4>1. Phase(a.to.type) \in {"open", "cancelled"}
        BY <3>3 DEF Phase
      <4>2. Account!Progress(c)
        BY <2>8, <3>1, <3>3, <4>1 DEF Advance, Account!Progress, phases
      <4>3. QED
        BY <2>3, <2>8, <3>1, <4>2 DEF Advance, Account!Next
    <3>4. QED
      BY <3>2, <3>3
  <2>9. QED
    BY <2>1, <2>2, <2>6, <2>7, <2>8 DEF Propose
<1>3. QED
  BY <1>1, <1>2

\* A session over trees of one currency implements the refund account: money leaves a
\* commitment while it is open, once per key, within what it and its root committed,
\* and the commitment is refunded exactly when it was paid back in full.
THEOREM ImplementsRefundAccount ==
  ASSUME UniformTrees
  PROVE  Spec => RefundAccountSpec
<1>1. UniformInv /\ [Proposes]_vars => UniformInv'
  BY NextUniform
<1>2. UniformInv /\ [Next]_vars => [Account!Next]_(Account!accountVars)
  BY NextRefines
<1>3. QED
  BY <1>1, <1>2, InitUniform, InitRefines, NextProposes, PTL DEF Spec, RefundAccountSpec, Account!Spec

=============================================================================
