--------------------------- MODULE CommerceModel ---------------------------
(***************************************************************************)
(* The static part of the commerce model: the generated transition tables, *)
(* money compared within a tolerance, the immutable facts of a world of    *)
(* commitments (amounts, tree links, buyer capacity), the checks I-1..I-6  *)
(* of the auditor and the optimistic-concurrency version of a commitment.  *)
(* No variables: the state machines (Lifecycle, Session, ...) extend it.   *)
(*                                                                         *)
(* Amounts are natural numbers of a unit finer than the currency's minor   *)
(* unit; Eps is moneyEpsilon (half a minor unit) in that unit.             *)
(***************************************************************************)
EXTENDS Integers, Sequences, FiniteSets, FiniteSetsExt

CONSTANTS
  Ids,          \* commitment ids an action or a tree link may name
  Commitments,  \* the ids of world.commitments
  Actors,       \* parties acting on commitments
  Currencies,
  Committed,    \* per commitment: the Money its `requested` subject sums to
  Parent,       \* per commitment: its `parent` pointer, or None
  Children,     \* per commitment: its `children` list, as a set
  MayBuy,       \* commitments whose initiator may buy (or is not in the world)
  Eps,          \* moneyEpsilon
  NoMoney, None

Money == [amount : Nat, currency : Currencies]

ASSUME CommitmentsAssumption ==
  Commitments \subseteq Ids /\ IsFiniteSet(Commitments) /\ None \notin Ids
ASSUME MoneyAssumption ==
  /\ NoMoney \notin Money
  /\ Eps \in Nat \ {0}
  /\ Committed \in [Commitments -> Money \cup {NoMoney}]
ASSUME LinksAssumption ==
  /\ Parent \in [Commitments -> Ids \cup {None}]
  /\ Children \in [Commitments -> SUBSET Ids]
  /\ MayBuy \subseteq Commitments

-----------------------------------------------------------------------------
(* Transition tables.                                                      *)

CommitmentTransitions ==
  [ Draft              |-> {"Proposed", "Tendered", "Cancelled"},
    Proposed           |-> {"Accepted", "Cancelled", "Modified"},
    Tendered           |-> {"Accepted", "Cancelled"},
    Accepted           |-> {"Modified", "PartiallyFulfilled", "Active",
                            "Cancelled", "Disputed"},
    Modified           |-> {"Accepted", "Cancelled"},
    PartiallyFulfilled |-> {"Fulfilled", "Modified", "Cancelled"},
    Active             |-> {"Modified", "Cancelled", "Disputed"},
    Fulfilled          |-> {"Disputed", "Refunded"},
    Cancelled          |-> {},
    Disputed           |-> {"Fulfilled", "Refunded", "Cancelled"},
    Refunded           |-> {} ]

StateTypes == DOMAIN CommitmentTransitions

\* A commitment state: its type, with the amount when it is Refunded.
States == {s \in [type : StateTypes, amount : Money \cup {NoMoney}] :
             (s.type = "Refunded") <=> (s.amount # NoMoney)}

Plain(t) == [type |-> t, amount |-> NoMoney]

IsValidCommitmentTransition(from, to) == to.type \in CommitmentTransitions[from.type]

\* The states applyCommitmentPath drives a Draft through to reach each type.
CommitmentPath ==
  [ Draft              |-> <<>>,
    Proposed           |-> <<"Proposed">>,
    Tendered           |-> <<"Tendered">>,
    Cancelled          |-> <<"Cancelled">>,
    Accepted           |-> <<"Proposed", "Accepted">>,
    Modified           |-> <<"Proposed", "Accepted", "Modified">>,
    Active             |-> <<"Proposed", "Accepted", "Active">>,
    Disputed           |-> <<"Proposed", "Accepted", "Disputed">>,
    PartiallyFulfilled |-> <<"Proposed", "Accepted", "PartiallyFulfilled">>,
    Fulfilled          |-> <<"Proposed", "Accepted", "PartiallyFulfilled", "Fulfilled">>,
    Refunded           |-> <<"Proposed", "Accepted", "PartiallyFulfilled", "Fulfilled",
                             "Refunded">> ]

-----------------------------------------------------------------------------
(* Money.                                                                  *)

MoneyEquals(a, b) == a - b < Eps /\ b - a < Eps

\* The refund clause of I-1: more than was committed, beyond the tolerance.
ExceedsCommitted(c, total, currency) ==
  /\ Committed[c] # NoMoney
  /\ Committed[c].currency = currency
  /\ total > Committed[c].amount
  /\ ~MoneyEquals(total, Committed[c].amount)

-----------------------------------------------------------------------------
(* Commitments: a state and an append-only history of transitions.         *)

Entry == [from : States, to : States, at : Nat, actor : Actors]
Commitment == [state : States, history : Seq(Entry)]

\* The stamp of the latest transition; a fresh commitment has none.
LastAt(c) == IF c.history = <<>> THEN 0 ELSE c.history[Len(c.history)].at

\* Slip: the transition replaces the history instead of extending it.
TransitionedAfresh(c, to, actor, at) ==
  [state   |-> to,
   history |-> <<[from |-> c.state, to |-> to, at |-> at, actor |-> actor]>>]

\* transitionCommitment's result, when it is ok.
Transitioned(c, to, actor, at) ==
  [state   |-> to,
   history |-> Append(c.history, [from |-> c.state, to |-> to, at |-> at, actor |-> actor])]

TransitionOk(c, to, at) == IsValidCommitmentTransition(c.state, to) /\ at >= LastAt(c)

\* A commitment an adapter knows in its final state only: applyCommitmentPath
\* replays the canonical path, here at instant 0 and with a Money for Refunded.
Synthesized(target, actor) ==
  LET path == CommitmentPath[target.type]
      visited(i) == IF i = 0 THEN Plain("Draft")
                    ELSE IF i = Len(path) THEN target ELSE Plain(path[i])
  IN [state   |-> target,
      history |-> [i \in 1..Len(path) |->
                     [from |-> visited(i - 1), to |-> visited(i), at |-> 0, actor |-> actor]]]

\* A history is one path: it starts in Draft, each entry leaves the state the
\* previous one entered, the last one enters the present state, and time never runs
\* backwards.
UnbrokenHistory(c) ==
  LET h == c.history
  IN /\ h = <<>> => c.state = Plain("Draft")
     /\ h # <<>> => h[1].from = Plain("Draft") /\ h[Len(h)].to = c.state
     /\ \A i \in 2..Len(h) : h[i].from = h[i - 1].to /\ h[i].at >= h[i - 1].at

-----------------------------------------------------------------------------
(* Optimistic-concurrency versions: history length plus state fingerprint. *)

\* Slip: the version is the state alone.
CommitmentVersionByState(c) == [length |-> 0, state |-> c.state]

CommitmentVersion(c) == [length |-> Len(c.history), state |-> c.state]

\* Every version some caller may have read of a commitment up to now.
ReadableVersions(c) ==
  {CommitmentVersion([state   |-> IF n = 0
                                  THEN IF c.history = <<>> THEN c.state ELSE c.history[1].from
                                  ELSE c.history[n].to,
                      history |-> SubSeq(c.history, 1, n)]) : n \in 0..Len(c.history)}

VersionConflict(c, expected) == expected # None /\ expected # CommitmentVersion(c)

-----------------------------------------------------------------------------
(* The commitment tree.                                                    *)

\* One step up the `parent` pointers, staying put below an absent parent.
Up(c) == IF Parent[c] \in Commitments THEN Parent[c] ELSE c

\* c and everything its parent pointers lead to inside the world.
AncestorLine(c) ==
  {r \in Commitments : \A S \in SUBSET Commitments :
                         (c \in S /\ \A x \in S : Up(x) \in S) => r \in S}

\* Parent pointers form no cycle, so every commitment has a topmost ancestor.
ASSUME ForestAssumption == \A c \in Commitments : \E r \in AncestorLine(c) : Up(r) = r

TreeRoot == [c \in Commitments |-> CHOOSE r \in AncestorLine(c) : Up(r) = r]

IsInTree(c) == TreeRoot[c] # c \/ Children[c] # {}

ChildrenByPointer(r) == {c \in Commitments : Parent[c] = r}

\* I-6: a parent's amount is the sum of its children's, in one currency.
ChildAmount(k) == IF Committed[k] = NoMoney THEN 0 ELSE Committed[k].amount
TreeConsistent(p, kids) ==
  Committed[p] # NoMoney =>
  /\ \A k \in kids : Committed[k] # NoMoney => Committed[k].currency = Committed[p].currency
  /\ MoneyEquals(MapThenSumSet(ChildAmount, kids), Committed[p].amount)

-----------------------------------------------------------------------------
(* auditCommerce: the checks over a world w (a function from Commitments)  *)
(* and its fulfillments f. Ids are unique because w and f are functions    *)
(* (I-5), and every subject has one currency (the first clause of I-1).    *)

AcceptedOrLater == {"Accepted", "Active", "Modified", "PartiallyFulfilled",
                    "Fulfilled", "Disputed", "Refunded"}

WasAccepted(c) == \E i \in DOMAIN c.history : c.history[i].to.type = "Accepted"

\* The stamp of the first Accepted transition of a commitment that has one.
AcceptedAt(c) ==
  c.history[CHOOSE i \in DOMAIN c.history :
              /\ c.history[i].to.type = "Accepted"
              /\ \A j \in 1..(i - 1) : c.history[j].to.type # "Accepted"].at

CheckI1(w) ==
  \A c \in DOMAIN w :
    w[c].state.type = "Refunded" =>
      ~ExceedsCommitted(c, w[c].state.amount.amount, w[c].state.amount.currency)

CheckI2(c) ==
  /\ \A i \in DOMAIN c.history :
       IsValidCommitmentTransition(c.history[i].from, c.history[i].to)
  /\ \A i \in 2..Len(c.history) : c.history[i].at >= c.history[i - 1].at

CheckI3(id, c) == (c.state.type \in AcceptedOrLater \/ WasAccepted(c)) => id \in MayBuy

CheckI4(id, c, f) ==
  \A x \in DOMAIN f :
    f[x].commitment = id =>
      /\ f[x].state.type \in {"InProgress", "Completed"} => WasAccepted(c)
      /\ f[x].startedAt # None /\ WasAccepted(c) => f[x].startedAt >= AcceptedAt(c)

CheckI6(id) ==
  LET kids == Children[id] \cap Commitments
  IN kids # {} => TreeConsistent(id, kids)

AuditClean(w, f) ==
  /\ CheckI1(w)
  /\ \A id \in DOMAIN w : CheckI2(w[id]) /\ CheckI3(id, w[id]) /\ CheckI4(id, w[id], f) /\ CheckI6(id)

-----------------------------------------------------------------------------
(* guardAction: accepts an action iff the commitment exists, the caller's  *)
(* version is current, the move is legal and the resulting world is clean. *)

\* What an agent proposes (the reason text is left out).
Actions(keys) ==
  [commitment : Ids, to : States, actor : Actors, key : keys \cup {None}]

MoveIn(w, a, at) ==
  [w EXCEPT ![a.commitment] = Transitioned(@, a.to, a.actor, at)]

GuardAccepts(w, f, a, expected, at) ==
  /\ a.commitment \in Commitments
  /\ ~VersionConflict(w[a.commitment], expected)
  /\ TransitionOk(w[a.commitment], a.to, at)
  /\ AuditClean(MoveIn(w, a, at), f)

-----------------------------------------------------------------------------
(* Two accounts of the same happenings, each with positions of its own in  *)
(* S and T: what the first says at its n-th position (f) the second says   *)
(* at its n-th (g).  Positions may be skipped, order may not change.       *)

Rank(i, S) == Cardinality({x \in S : x < i})

TellTheSame(S, f, T, g) ==
  /\ Cardinality(S) = Cardinality(T)
  /\ \A i \in S, j \in T : Rank(i, S) = Rank(j, T) => f[i] = g[j]

=============================================================================
