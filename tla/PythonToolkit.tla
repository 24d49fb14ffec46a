--------------------------- MODULE PythonToolkit ---------------------------
(***************************************************************************)
(* The Python toolkit's session: the invariant checkers, guard_action and  *)
(* Session.propose as functions of the session they are called on.  Its    *)
(* guard appends to the history, I-6 is a function of its own, and adding  *)
(* to a tally in another currency raises.                                  *)
(***************************************************************************)
EXTENDS CommerceModel

\* A violation is not None.
ASSUME ErrorsAssumption == None \notin {"I-2", "I-4"}

PyIsValidCommitmentTransition(from, to) == to.type \in CommitmentTransitions[from.type]

\* transition_commitment: the error's invariant, or the moved commitment.
PyTransition(c, to, actor, at) ==
  IF ~PyIsValidCommitmentTransition(c.state, to) THEN [error |-> "I-2", value |-> c]
  ELSE IF c.history # <<>> /\ at < c.history[Len(c.history)].at THEN [error |-> "I-4", value |-> c]
  ELSE [error |-> None,
        value |-> [c EXCEPT !.state = to,
                            !.history = Append(@, [from |-> c.state, to |-> to, at |-> at, actor |-> actor])]]

PyCheckI1(probe) ==
  {c \in DOMAIN probe :
     /\ probe[c].state.type = "Refunded" /\ Committed[c] # NoMoney
     /\ LET refund == probe[c].state.amount
        IN /\ refund.currency = Committed[c].currency
           /\ refund.amount > Committed[c].amount
           /\ ~MoneyEquals(refund.amount, Committed[c].amount)}

PyCheckI2(c) ==
  /\ \A h \in {c.history[i] : i \in DOMAIN c.history} : PyIsValidCommitmentTransition(h.from, h.to)
  /\ \A i \in 1..(Len(c.history) - 1) : ~(c.history[i + 1].at < c.history[i].at)

PyReachedAccepted(c) == c.state.type \in AcceptedOrLater \/ WasAccepted(c)
PyCheckI3(c, canBuy) == PyReachedAccepted(c) => canBuy

PyCheckI4(id, c, f) ==
  \A x \in {y \in DOMAIN f : f[y].commitment = id} :
    IF f[x].state.type \in {"InProgress", "Completed"} /\ ~WasAccepted(c) THEN FALSE
    ELSE f[x].startedAt # None /\ WasAccepted(c) => ~(f[x].startedAt < AcceptedAt(c))

PyCheckI6(parent, children) ==
  LET totals == {k \in children : Committed[k] # NoMoney}
      amount == MapThenSumSet(LAMBDA k : Committed[k].amount, totals)
  IN Committed[parent] = NoMoney
     \/ /\ {Committed[k].currency : k \in totals} \subseteq {Committed[parent].currency}
        /\ MoneyEquals(amount, Committed[parent].amount)

PyAuditClean(w, f) ==
  /\ PyCheckI1(w) = {}
  /\ \A c \in DOMAIN w :
       /\ PyCheckI2(w[c]) /\ PyCheckI3(w[c], c \in MayBuy) /\ PyCheckI4(c, w[c], f)
       /\ LET kids == Children[c] \cap DOMAIN w IN kids # {} => PyCheckI6(c, kids)

-----------------------------------------------------------------------------

PyActionKey(a) ==
  LET amount == IF a.to.type # "Refunded" THEN <<>> ELSE <<a.to.amount.amount, a.to.amount.currency>>
  IN IF a.key # None THEN <<"key", a.key>> ELSE <<"fp", a.commitment, a.to.type, a.actor>> \o amount

\* guard_action: the moved commitment in its world, if the move and the world pass.
PyGuard(w, f, a, at) ==
  LET moved == PyTransition(w[a.commitment], a.to, a.actor, at)
      next == [w EXCEPT ![a.commitment] = moved.value]
  IN IF a.commitment \notin DOMAIN w THEN [ok |-> FALSE, next |-> w]
     ELSE IF moved.error # None \/ ~PyAuditClean(next, f) THEN [ok |-> FALSE, next |-> w]
     ELSE [ok |-> TRUE, next |-> next]

PyTreeRootOf(c) == TreeRoot[c]
PyIsInTree(c) == PyTreeRootOf(c) # c \/ Children[c] # {}

PyIsCumulativeOverRefund(c, total) ==
  PyCheckI1([p \in {c} |-> [state |-> [type |-> "Refunded", amount |-> total], history |-> <<>>]]) # {}

\* add(): the sum, or nothing when it raises.
PyAdd(t, money) ==
  IF t = NoMoney THEN money
  ELSE IF t.currency # money.currency THEN NoMoney
  ELSE [t EXCEPT !.amount = @ + money.amount]

\* What is recorded of an accepted refund, in the order of the assignments: the world
\* and the ledger stay written when the tree's tally raises.
PyRecord(s, w, a, total) ==
  LET root == PyTreeRootOf(a.commitment)
      sum == PyAdd(s.tree[root], a.to.amount)
      held == [s EXCEPT !.world = w, !.ledger[a.commitment] = total]
  IN IF ~PyIsInTree(a.commitment)
     THEN [held EXCEPT !.applied = @ \cup {PyActionKey(a)}, !.verdict = "accepted"]
     ELSE IF sum = NoMoney THEN [held EXCEPT !.verdict = "raised"]
     ELSE [held EXCEPT !.tree[root] = sum, !.applied = @ \cup {PyActionKey(a)}, !.verdict = "accepted"]

PyRefund(s, f, a, at) ==
  LET c == a.commitment
      money == a.to.amount
      root == PyTreeRootOf(c)
      pointing == {k \in DOMAIN s.world : Parent[k] = root}
      total == s.ledger[c] + money.amount
      treeTotal == money.amount + IF s.tree[root] = NoMoney THEN 0 ELSE s.tree[root].amount
      capped == \/ PyIsCumulativeOverRefund(c, [money EXCEPT !.amount = total])
                \/ /\ PyIsInTree(c)
                   /\ \/ ~PyCheckI6(root, pointing)
                      \/ PyIsCumulativeOverRefund(root, [money EXCEPT !.amount = treeTotal])
      verdict == PyGuard(s.world, f, a, at)
  IN IF capped THEN [s EXCEPT !.verdict = "rejected"]
     ELSE IF ~MoneyEquals(total, Committed[c].amount) THEN PyRecord(s, s.world, a, total)
     ELSE IF verdict.ok THEN PyRecord(s, verdict.next, a, total)
     ELSE [s EXCEPT !.verdict = "rejected"]

PyTracks(s, a) ==
  /\ a.to.type = "Refunded" /\ a.commitment \in DOMAIN s.world
  /\ PyIsValidCommitmentTransition(s.world[a.commitment].state, a.to)
  /\ Committed[a.commitment] # NoMoney /\ a.to.amount.currency = Committed[a.commitment].currency

PyPropose(s, f, a, at) ==
  LET verdict == PyGuard(s.world, f, a, at)
  IN IF PyActionKey(a) \in s.applied THEN [s EXCEPT !.verdict = "replay"]
     ELSE IF PyTracks(s, a) THEN PyRefund(s, f, a, at)
     ELSE IF ~verdict.ok THEN [s EXCEPT !.verdict = "rejected"]
     ELSE [s EXCEPT !.world = verdict.next, !.applied = @ \cup {PyActionKey(a)}, !.verdict = "accepted"]

PySession(w) ==
  [world |-> w, ledger |-> [c \in DOMAIN w |-> 0], tree |-> [c \in DOMAIN w |-> NoMoney],
   applied |-> {}, verdict |-> "none"]
=============================================================================
