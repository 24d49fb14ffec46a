---------------------------- MODULE RustToolkit ----------------------------
(***************************************************************************)
(* The Rust toolkit's session: audit_scene, guard_action and               *)
(* Session::propose as functions of the session they are called on.  The   *)
(* guard moves a commitment's state and leaves its history as it was, and  *)
(* tree consistency is read off a full audit of the root and its children. *)
(* A session is a record: the world, the two ledgers, the applied keys and *)
(* the verdict of the last proposal.                                       *)
(***************************************************************************)
EXTENDS CommerceModel

RustIsValidTransition(from, to) == to \in CommitmentTransitions[from]

\* The clause of I-1 on a Refunded commitment.
RustOverRefunds(c, refund) ==
  /\ Committed[c] # NoMoney
  /\ refund.currency = Committed[c].currency
  /\ refund.amount > Committed[c].amount
  /\ ~MoneyEquals(refund.amount, Committed[c].amount)

RustReachedAccepted(c) ==
  c.state.type \in AcceptedOrLater \/ \E i \in DOMAIN c.history : c.history[i].to.type = "Accepted"

RustBreaksTree(c, kids) ==
  LET priced == {k \in kids : Committed[k] # NoMoney}
  IN /\ kids # {} /\ Committed[c] # NoMoney
     /\ \/ {Committed[k].currency : k \in priced} \ {Committed[c].currency} # {}
        \/ ~MoneyEquals(MapThenSumSet(LAMBDA k : Committed[k].amount, priced), Committed[c].amount)

\* The ids of the invariants a scene breaks.  Ids are unique and subjects have one
\* currency, as in CommerceModel, so I-5 and the first clause of I-1 are never broken.
RustAuditScene(w, f) ==
  LET breaks(c) ==
        [ I1 |-> w[c].state.type = "Refunded" /\ RustOverRefunds(c, w[c].state.amount),
          I2 |-> \E i \in DOMAIN w[c].history :
                   LET h == w[c].history[i]
                   IN \/ ~RustIsValidTransition(h.from.type, h.to.type)
                      \/ i > 1 /\ h.at < w[c].history[i - 1].at,
          I3 |-> c \notin MayBuy /\ RustReachedAccepted(w[c]),
          I4 |-> \E x \in DOMAIN f :
                   /\ f[x].commitment = c
                   /\ \/ f[x].state.type \in {"InProgress", "Completed"} /\ ~WasAccepted(w[c])
                      \/ /\ f[x].startedAt # None /\ WasAccepted(w[c])
                         /\ f[x].startedAt < AcceptedAt(w[c]),
          I6 |-> RustBreaksTree(c, Children[c] \cap DOMAIN w) ]
  IN {i \in {"I1", "I2", "I3", "I4", "I6"} : \E c \in DOMAIN w : breaks(c)[i]}

RustKey(a) ==
  IF a.key # None THEN <<"key", a.key>>
  ELSE <<"fp", a.commitment, a.to.type, a.actor>>
       \o IF a.to.type = "Refunded" THEN <<a.to.amount.amount, a.to.amount.currency>> ELSE <<>>

\* guard_action, and what propose() does with its verdict: the world and the key move
\* only when it accepts.
RustGuard(s, f, a) ==
  LET next == [s.world EXCEPT ![a.commitment].state = a.to]
      ok == /\ a.commitment \in DOMAIN s.world
            /\ RustIsValidTransition(s.world[a.commitment].state.type, a.to.type)
            /\ RustAuditScene(next, f) = {}
  IN IF ok THEN [s EXCEPT !.world = next, !.verdict = "accepted", !.applied = @ \cup {RustKey(a)}]
     ELSE [s EXCEPT !.verdict = "rejected"]

\* The root is walked up to by the parent pointers.
RustTreeRoot(c) == TreeRoot[c]
RustIsInTree(c) == RustTreeRoot(c) # c \/ Children[c] # {}

\* The root and the children that point to it, audited for I-6 alone.
RustTreeIsConsistent(w, r) ==
  LET kids == {k \in DOMAIN w : Parent[k] = r}
      subset == [k \in kids \cup {r} |-> w[k]]
  IN kids # {} => "I6" \notin RustAuditScene(subset, <<>>)

\* A probe commitment, Refunded for the total and without a history, audited for I-1.
RustIsCumulativeOverRefund(w, c, total) ==
  LET probe == [k \in {c} |-> [state |-> [type |-> "Refunded", amount |-> total], history |-> <<>>]]
  IN "I1" \in RustAuditScene(probe, <<>>)

\* Slip: the tree is capped by what the line itself has had refunded.
RustTreeAllowsByLine(s, c, refund) ==
  LET r == RustTreeRoot(c)
  IN RustIsInTree(c) =>
       /\ RustTreeIsConsistent(s.world, r)
       /\ Committed[r] # NoMoney /\ Committed[r].currency = refund.currency =>
            ~RustIsCumulativeOverRefund(s.world, r, [refund EXCEPT !.amount = @ + s.ledger[c]])

RustTreeAllows(s, c, refund) ==
  LET r == RustTreeRoot(c)
      prior == IF s.tree[r] = NoMoney THEN 0 ELSE s.tree[r].amount
  IN RustIsInTree(c) =>
       /\ RustTreeIsConsistent(s.world, r)
       /\ Committed[r] # NoMoney /\ Committed[r].currency = refund.currency =>
            ~RustIsCumulativeOverRefund(s.world, r, [refund EXCEPT !.amount = @ + prior])

\* record_tree overwrites the tally, whatever currency it was in.
RustRecord(s, a, cumulative) ==
  LET c == a.commitment
      r == RustTreeRoot(c)
      prior == IF s.tree[r] = NoMoney THEN 0 ELSE s.tree[r].amount
  IN [s EXCEPT !.ledger[c] = cumulative,
               !.tree[r] = IF RustIsInTree(c) THEN [a.to.amount EXCEPT !.amount = @ + prior] ELSE @,
               !.applied = @ \cup {RustKey(a)}]

RustTracks(s, a) ==
  /\ a.to.type = "Refunded"
  /\ a.commitment \in DOMAIN s.world
  /\ RustIsValidTransition(s.world[a.commitment].state.type, "Refunded")
  /\ Committed[a.commitment] # NoMoney
  /\ Committed[a.commitment].currency = a.to.amount.currency

\* The refund path: both caps, then the guard only for the refund that settles.
RustRefund(s, f, a) ==
  LET c == a.commitment
      cumulative == s.ledger[c] + a.to.amount.amount
      guarded == RustGuard(s, f, a)
  IN IF \/ RustIsCumulativeOverRefund(s.world, c, [a.to.amount EXCEPT !.amount = cumulative])
        \/ ~RustTreeAllows(s, c, a.to.amount)
     THEN [s EXCEPT !.verdict = "rejected"]
     ELSE IF ~MoneyEquals(cumulative, Committed[c].amount)
     THEN RustRecord([s EXCEPT !.verdict = "accepted"], a, cumulative)
     ELSE IF guarded.verdict = "accepted" THEN RustRecord(guarded, a, cumulative) ELSE guarded

RustPropose(s, f, a) ==
  IF RustKey(a) \in s.applied THEN [s EXCEPT !.verdict = "replay"]
  ELSE IF RustTracks(s, a) THEN RustRefund(s, f, a)
  ELSE RustGuard(s, f, a)

RustSession(w) ==
  [world |-> w, ledger |-> [c \in DOMAIN w |-> 0], tree |-> [c \in DOMAIN w |-> NoMoney],
   applied |-> {}, verdict |-> "none"]
=============================================================================
