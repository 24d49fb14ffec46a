------------------------------ MODULE Session ------------------------------
(***************************************************************************)
(* createSession: proposals validated one after another against an         *)
(* accumulating world, a ledger of what each commitment has had refunded,  *)
(* a ledger per commitment tree and the set of action keys already         *)
(* applied.  propose() is synchronous, so one proposal is one step; each   *)
(* of its outcomes is an action of this module.                            *)
(***************************************************************************)
EXTENDS CommerceModel

CONSTANTS
  Requests,      \* the actions agents propose, without a version
  Times,         \* the readings the wall clock may give
  Initially,     \* per commitment: its state when the session is created
  Fulfillments,  \* the world's fulfillments, which a session never moves
  MaxHistory     \* bound: no proposal on a commitment with so many transitions

Keys == {r.key : r \in Requests} \ {None}

ASSUME RequestsAssumption ==
  /\ Requests \subseteq Actions(Keys)
  /\ Times \subseteq Nat
  /\ Initially \in [Commitments -> States]
  /\ Actors # {}

CommitmentVersions == [length : Nat, state : States]

\* A version a caller passes is never mistaken for none.
ASSUME VersionsAssumption == None \notin CommitmentVersions

VARIABLES
  world,       \* the accumulated world: id -> commitment
  ledger,      \* id -> amount refunded so far in the committed currency (0: none)
  treeLedger,  \* root id -> Money refunded so far across its tree, or NoMoney
  applied,     \* the keys of the actions applied in this session
  paid         \* history variable: id -> currency -> amount the accepted,
               \* non-replayed Refunded verdicts told the host to pay back

vars == <<world, ledger, treeLedger, applied, paid>>

-----------------------------------------------------------------------------

\* actionKey: the idempotency key, or a fingerprint of the operation.
ActionKey(a) ==
  IF a.key # None THEN <<"key", a.key>> ELSE <<"fp", a.commitment, a.to, a.actor>>

ActionKeys == {ActionKey(r) : r \in Requests}

Known(a) == a.commitment \in Commitments
\* Slips: only actions with, or only those without, a key of their own are recognized.
IsReplayIfKeyed(a) == a.key # None /\ ActionKey(a) \in applied
IsReplayIfKeyless(a) == a.key = None /\ ActionKey(a) \in applied

IsReplay(a) == ActionKey(a) \in applied
Conflicts(a, expected) == Known(a) /\ VersionConflict(world[a.commitment], expected)
Fresh(a, expected) == ~IsReplay(a) /\ ~Conflicts(a, expected)

Accepting(a, expected, at) == GuardAccepts(world, Fulfillments, a, expected, at)

\* A refund the cross-step ledgers watch: legal from here, amounts comparable.
Tracked(a) ==
  /\ Known(a)
  /\ a.to.type = "Refunded"
  /\ IsValidCommitmentTransition(world[a.commitment].state, a.to)
  /\ Committed[a.commitment] # NoMoney
  /\ Committed[a.commitment].currency = a.to.amount.currency

\* Slips: what was refunded before is left out, or what remains is kept instead.
CumulativeOfOne(a) == a.to.amount.amount
CumulativeLeft(a) == ledger[a.commitment] - a.to.amount.amount

Cumulative(a) == ledger[a.commitment] + a.to.amount.amount

\* Slip: the tolerance is granted twice.
WithinOrderLoosely(a) ==
  ~ExceedsCommitted(a.commitment, Cumulative(a) - Eps, a.to.amount.currency)

WithinOrder(a) == ~ExceedsCommitted(a.commitment, Cumulative(a), a.to.amount.currency)

\* Slip: the last of several refunds is not recognized as settling the order.
SettlesInOne(a) == MoneyEquals(a.to.amount.amount, Committed[a.commitment].amount)

SettlesInFull(a) == MoneyEquals(Cumulative(a), Committed[a.commitment].amount)

TreeSoFar(r) == IF treeLedger[r] = NoMoney THEN 0 ELSE treeLedger[r].amount

\* In a tree, the root's direct children reconcile and the whole tree's refunds
\* stay within what the root committed.
WithinTree(a) ==
  LET root == TreeRoot[a.commitment]
  IN IsInTree(a.commitment) =>
       /\ TreeConsistent(root, ChildrenByPointer(root))
       /\ ~ExceedsCommitted(root, TreeSoFar(root) + a.to.amount.amount, a.to.amount.currency)

Refundable(a) == Tracked(a) /\ WithinOrder(a) /\ WithinTree(a)

\* add() throws on two currencies: the tree tally already holds another one.
TallyClashes(a) ==
  LET tally == treeLedger[TreeRoot[a.commitment]]
  IN IsInTree(a.commitment) /\ tally # NoMoney /\ tally.currency # a.to.amount.currency

\* The accepted verdict tells the host to pay the refund back.
PayBack(a) ==
  paid' = [paid EXCEPT ![a.commitment][a.to.amount.currency] = @ + a.to.amount.amount]

RecordInLedger(a) == ledger' = [ledger EXCEPT ![a.commitment] = Cumulative(a)]

\* Slip: the refund is tallied on the line instead of on the root of its tree.
RecordTreeByLine(a) ==
  treeLedger' =
    IF IsInTree(a.commitment)
    THEN [treeLedger EXCEPT ![a.commitment] = [amount   |-> TreeSoFar(a.commitment) + a.to.amount.amount,
                                               currency |-> a.to.amount.currency]]
    ELSE treeLedger

RecordTree(a) ==
  LET root == TreeRoot[a.commitment]
  IN treeLedger' =
       IF IsInTree(a.commitment)
       THEN [treeLedger EXCEPT ![root] = [amount   |-> TreeSoFar(root) + a.to.amount.amount,
                                          currency |-> a.to.amount.currency]]
       ELSE treeLedger

RecordKey(a) == applied' = applied \cup {ActionKey(a)}

-----------------------------------------------------------------------------
(* The outcomes of propose(action).                                        *)

\* Already applied in this session: ok, flagged replay, nothing happens.
Replay(a) == IsReplay(a) /\ UNCHANGED vars

\* Planned against a version the commitment has moved past.
Conflict(a, expected) == ~IsReplay(a) /\ Conflicts(a, expected) /\ UNCHANGED vars

\* A refund that leaves something to refund: only the ledgers move.
RefundInPart(a, expected) ==
  /\ Fresh(a, expected)
  /\ Refundable(a)
  /\ ~SettlesInFull(a)
  /\ ~TallyClashes(a)
  /\ RecordInLedger(a) /\ RecordTree(a) /\ RecordKey(a) /\ PayBack(a)
  /\ UNCHANGED world

\* The refund that reaches the committed amount also moves the commitment.
RefundInFull(a, expected, at) ==
  /\ Fresh(a, expected)
  /\ Refundable(a)
  /\ SettlesInFull(a)
  /\ Accepting(a, expected, at)
  /\ ~TallyClashes(a)
  /\ world' = MoveIn(world, a, at)
  /\ RecordInLedger(a) /\ RecordTree(a) /\ RecordKey(a) /\ PayBack(a)

\* The tree tally cannot be added to: propose() throws after it has recorded the
\* refund in the ledger (and moved the commitment, when the refund is the last).
RefundThrows(a, expected, at) ==
  /\ Fresh(a, expected)
  /\ Refundable(a)
  /\ TallyClashes(a)
  /\ SettlesInFull(a) => Accepting(a, expected, at)
  /\ world' = IF SettlesInFull(a) THEN MoveIn(world, a, at) ELSE world
  /\ RecordInLedger(a)
  /\ UNCHANGED <<treeLedger, applied, paid>>

\* Everything else the guard accepts, refunds in another currency included.
Advance(a, expected, at) ==
  /\ Fresh(a, expected)
  /\ ~Tracked(a)
  /\ Accepting(a, expected, at)
  /\ world' = MoveIn(world, a, at)
  /\ RecordKey(a)
  /\ IF a.to.type = "Refunded" THEN PayBack(a) ELSE UNCHANGED paid
  /\ UNCHANGED <<ledger, treeLedger>>

\* The verdict of a fresh proposal is ok.
Accepted(a, expected, at) ==
  /\ Fresh(a, expected)
  /\ IF Tracked(a)
     THEN /\ Refundable(a) /\ ~TallyClashes(a)
          /\ SettlesInFull(a) => Accepting(a, expected, at)
     ELSE Accepting(a, expected, at)

\* The verdict of a fresh proposal is a list of violations.
Rejected(a, expected, at) ==
  /\ Fresh(a, expected)
  /\ IF Tracked(a)
     THEN ~Refundable(a) \/ (SettlesInFull(a) /\ ~Accepting(a, expected, at))
     ELSE ~Accepting(a, expected, at)

Reject(a, expected, at) == Rejected(a, expected, at) /\ UNCHANGED vars

Propose(a, expected, at) ==
  \/ Replay(a)
  \/ Conflict(a, expected)
  \/ RefundInPart(a, expected)
  \/ RefundInFull(a, expected, at)
  \/ RefundThrows(a, expected, at)
  \/ Advance(a, expected, at)
  \/ Reject(a, expected, at)

-----------------------------------------------------------------------------

\* The versions the caller of a may have planned against.
PlannedVersions(a) ==
  {None} \cup IF Known(a) THEN ReadableVersions(world[a.commitment]) ELSE {}

BelowBound(a) == Known(a) => Len(world[a.commitment].history) < MaxHistory

InitialWorld ==
  [c \in Commitments |-> Synthesized(Initially[c], CHOOSE p \in Actors : TRUE)]

Init ==
  /\ world = InitialWorld
  /\ ledger = [c \in Commitments |-> 0]
  /\ treeLedger = [c \in Commitments |-> NoMoney]
  /\ applied = {}
  /\ paid = [c \in Commitments |-> [m \in Currencies |-> 0]]

\* The caller of a, whenever it read, proposes it at some reading of the clock.
ProposeAnytime(a) ==
  \E expected \in PlannedVersions(a), at \in Times : BelowBound(a) /\ Propose(a, expected, at)

Next == \E a \in Requests : ProposeAnytime(a)

Spec == Init /\ [][Next]_vars

-----------------------------------------------------------------------------
(* Properties.                                                             *)

\* The types of the session's state: no tally, ledger or payback is ever negative or
\* in a currency the program does not know, and every recorded key is an action's.
TypeOK ==
  /\ world \in [Commitments -> Commitment]
  /\ ledger \in [Commitments -> Nat]
  /\ treeLedger \in [Commitments -> Money \cup {NoMoney}]
  /\ applied \subseteq ActionKeys
  /\ paid \in [Commitments -> [Currencies -> Nat]]

\* However a commitment's refunds are sliced, retried, disputed and interleaved,
\* the money paid back in its own currency never exceeds what was committed
\* (to within the money tolerance).  createSession's cumulative ledger check.
PaidWithinCommitted ==
  \A c \in Commitments :
    Committed[c] # NoMoney =>
      paid[c][Committed[c].currency] < Committed[c].amount + Eps

\* A commitment's tree: everything below the same root.
TreeOf(r) == {c \in Commitments : TreeRoot[c] = r}

\* Parents and children name each other, and every member has a price in the
\* root's currency: the trees for which the session's cap is a cap.
WellFormedTree(r) ==
  /\ Up(r) = r
  /\ \A c \in TreeOf(r) : /\ Committed[c] # NoMoney
                          /\ Children[c] \cap Commitments = ChildrenByPointer(c)
  /\ \A c \in TreeOf(r) : Committed[c].currency = Committed[r].currency

\* The refunds spread over a whole tree stay within what its root committed (to
\* within the tolerance), whichever members they are taken from, in whatever order
\* and however deep the tree is.  createSession's tree ledger.
PaidWithinTree ==
  \A r \in Commitments :
    WellFormedTree(r) =>
      LET paidOn == [c \in TreeOf(r) |-> paid[c][Committed[r].currency]]
      IN SumFunctionOnSet(paidOn, TreeOf(r)) < Committed[r].amount + Eps

\* The trees whose priced members share one currency: there the tally never clashes.
UniformTrees ==
  \A c, d \in Commitments :
    (TreeRoot[c] = TreeRoot[d] /\ Committed[c] # NoMoney /\ Committed[d] # NoMoney)
      => Committed[c].currency = Committed[d].currency

\* The two views of a refund agree: a commitment whose refunds reach the committed
\* amount has moved to Refunded, and one that moved to Refunded in its own currency
\* during this session has been paid back in full.  RefundInPart keeps the state,
\* RefundInFull moves it; a lost or doubled ledger entry breaks the agreement.
RefundedMeansPaidInFull ==
  \A c \in Commitments :
    Committed[c] # NoMoney =>
      LET total == paid[c][Committed[c].currency]
          full == MoneyEquals(total, Committed[c].amount)
      IN /\ total > 0 /\ full => world[c].state.type = "Refunded"
         /\ /\ world[c].state.type = "Refunded"
            /\ Initially[c].type # "Refunded"
            /\ world[c].state.amount.currency = Committed[c].currency
            => full

\* Every history stays one unbroken path from Draft to the present state, with time
\* never running backwards.  auditCommerce checks the edges one by one and never
\* that they connect; only the way transitionCommitment appends makes it so.
HistoryUnbroken == \A c \in Commitments : UnbrokenHistory(world[c])

\* Each key takes effect once: a step that pays money back or moves a commitment
\* records a key that was not recorded before, so a retried action pays nothing.
AppliedOnce ==
  [][(paid' # paid \/ world' # world) => (applied \subseteq applied' /\ applied' # applied)]_vars

\* A proposal that is not accepted leaves no trace: the ledger and the world move
\* only in a step that also records the action as applied.
FailureLeavesNoTrace ==
  [][(ledger' # ledger \/ world' # world) => applied' # applied]_vars

Phase(t) ==
  IF t = "Refunded" THEN "refunded" ELSE IF t = "Cancelled" THEN "cancelled" ELSE "open"

Account == INSTANCE RefundAccount WITH
  Keys     <- ActionKeys,
  Moneys   <- {r.to.amount : r \in Requests} \ {NoMoney},
  Root     <- TreeRoot,
  InTree   <- {c \in Commitments : IsInTree(c)},
  Opening  <- [c \in Commitments |-> Phase(Initially[c].type)],
  phase    <- [c \in Commitments |-> Phase(world[c].state.type)],
  treePaid <- treeLedger,
  settled  <- applied

\* The session implements the refund account: every outcome of propose() is a
\* payment, a closing refund or a progress of the account, or leaves it alone.
RefundAccountSpec == Account!Spec
=============================================================================
