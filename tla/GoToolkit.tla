----------------------------- MODULE GoToolkit -----------------------------
(***************************************************************************)
(* The Go toolkit's session: AuditScene, GuardAction and Session.Propose   *)
(* as functions of the session they are called on.  Like the Rust one, the *)
(* guard sets the commitment's state and appends nothing to its history.   *)
(***************************************************************************)
EXTENDS CommerceModel

GoAllows(from, to) == \E t \in CommitmentTransitions[from] : t = to

GoReachedAccepted(c) ==
  \/ c.state.type \in AcceptedOrLater
  \/ \E i \in DOMAIN c.history : c.history[i].to.type = "Accepted"

\* The four clauses of AuditScene a move or a tree can break, as sets of offenders.
GoOverRefunded(w) ==
  {c \in DOMAIN w :
     /\ w[c].state.type = "Refunded" /\ Committed[c] # NoMoney
     /\ w[c].state.amount.currency = Committed[c].currency
     /\ w[c].state.amount.amount > Committed[c].amount
     /\ ~MoneyEquals(w[c].state.amount.amount, Committed[c].amount)}

GoOutOfOrder(w) ==
  {c \in DOMAIN w :
     \E i \in DOMAIN w[c].history :
       \/ ~GoAllows(w[c].history[i].from.type, w[c].history[i].to.type)
       \/ i > 1 /\ w[c].history[i].at < w[c].history[i - 1].at}

GoTooEarly(w, f) ==
  {c \in DOMAIN w :
     \E x \in DOMAIN f :
       /\ f[x].commitment = c
       /\ IF f[x].state.type \in {"InProgress", "Completed"} /\ ~WasAccepted(w[c]) THEN TRUE
          ELSE f[x].startedAt # None /\ WasAccepted(w[c]) /\ f[x].startedAt < AcceptedAt(w[c])}

GoUnbalanced(w) ==
  {c \in DOMAIN w :
     LET kids == Children[c] \cap DOMAIN w
         held == {k \in kids : Committed[k] # NoMoney}
         sum == MapThenSumSet(LAMBDA k : Committed[k].amount, held)
     IN /\ kids # {} /\ Committed[c] # NoMoney
        /\ \/ \E k \in held : Committed[k].currency # Committed[c].currency
           \/ ~MoneyEquals(sum, Committed[c].amount)}

GoAuditScene(w, f) ==
  (IF GoOverRefunded(w) # {} THEN {"I-1"} ELSE {})
  \cup (IF GoOutOfOrder(w) # {} THEN {"I-2"} ELSE {})
  \cup (IF \E c \in DOMAIN w \ MayBuy : GoReachedAccepted(w[c]) THEN {"I-3"} ELSE {})
  \cup (IF GoTooEarly(w, f) # {} THEN {"I-4"} ELSE {})
  \cup (IF GoUnbalanced(w) # {} THEN {"I-6"} ELSE {})

-----------------------------------------------------------------------------

GoKey(a) ==
  CASE a.key # None -> <<"key", a.key>>
    [] a.key = None /\ a.to.type = "Refunded" ->
         <<"fp", a.commitment, a.to.type, a.actor, a.to.amount.amount, a.to.amount.currency>>
    [] OTHER -> <<"fp", a.commitment, a.to.type, a.actor>>

\* GuardAction: the next world is a copy with the one state replaced.
GoNext(w, a) == [c \in DOMAIN w |-> IF c = a.commitment THEN [w[c] EXCEPT !.state = a.to] ELSE w[c]]
GoGuardOk(w, f, a) ==
  /\ a.commitment \in DOMAIN w
  /\ GoAllows(w[a.commitment].state.type, a.to.type)
  /\ GoAuditScene(GoNext(w, a), f) = {}

GoRootOf(c) == TreeRoot[c]
GoIsInTree(c) == GoRootOf(c) # c \/ Children[c] # {}

\* The root and the commitments that name it as parent; a root alone is consistent.
GoTreeIsConsistent(w, r) ==
  LET subset == {r} \cup {c \in DOMAIN w : Parent[c] = r}
  IN subset = {r} \/ "I-6" \notin GoAuditScene([c \in subset |-> w[c]], <<>>)

\* A probe commitment that had the total refunded, without a history.
GoIsCumulativeOverRefund(c, total, currency) ==
  LET refunded == [type |-> "Refunded", amount |-> [amount |-> total, currency |-> currency]]
  IN "I-1" \in GoAuditScene([p \in {c} |-> [state |-> refunded, history |-> <<>>]], <<>>)

GoTally(t) == IF t = NoMoney THEN 0 ELSE t.amount

\* Propose, for a refund in the committed currency that is legal from here.
GoRefund(s, f, a) ==
  LET c == a.commitment
      money == a.to.amount
      total == s.ledger[c] + money.amount
      r == GoRootOf(c)
      treeTotal == GoTally(s.tree[r]) + money.amount
      overTree == /\ Committed[r] # NoMoney /\ Committed[r].currency = money.currency
                  /\ GoIsCumulativeOverRefund(r, treeTotal, money.currency)
      settles == MoneyEquals(total, Committed[c].amount)
      refused == \/ GoIsCumulativeOverRefund(c, total, money.currency)
                 \/ GoIsInTree(c) /\ (~GoTreeIsConsistent(s.world, r) \/ overTree)
                 \/ settles /\ ~GoGuardOk(s.world, f, a)
      tallied == [amount |-> treeTotal, currency |-> money.currency]
  IN IF refused THEN [s EXCEPT !.verdict = "rejected"]
     ELSE [s EXCEPT !.world = IF settles THEN GoNext(@, a) ELSE @,
                    !.ledger[c] = total,
                    !.tree[r] = IF GoIsInTree(c) THEN tallied ELSE @,
                    !.applied = @ \cup {GoKey(a)},
                    !.verdict = "accepted"]

GoPropose(s, f, a) ==
  LET c == a.commitment
      tracked == /\ a.to.type = "Refunded" /\ c \in DOMAIN s.world
                 /\ GoAllows(s.world[c].state.type, "Refunded")
                 /\ Committed[c] # NoMoney /\ Committed[c].currency = a.to.amount.currency
  IN CASE GoKey(a) \in s.applied -> [s EXCEPT !.verdict = "replay"]
       [] GoKey(a) \notin s.applied /\ tracked -> GoRefund(s, f, a)
       [] GoKey(a) \notin s.applied /\ ~tracked /\ GoGuardOk(s.world, f, a) ->
            [s EXCEPT !.world = GoNext(@, a), !.applied = @ \cup {GoKey(a)}, !.verdict = "accepted"]
       [] OTHER -> [s EXCEPT !.verdict = "rejected"]

GoSession(w) ==
  [verdict |-> "none", applied |-> {}, world |-> w,
   ledger |-> [c \in DOMAIN w |-> 0], tree |-> [c \in DOMAIN w |-> NoMoney]]
=============================================================================
