--------------------------- MODULE RefundAccount ---------------------------
(***************************************************************************)
(* What a session promises about money, with nothing of how it decides:    *)
(* every commitment is an account that is open, cancelled or refunded;     *)
(* money leaves it while it is open, once per key, within the committed    *)
(* amount and within the amount committed by the root of its tree; it is   *)
(* refunded exactly when it has been paid back in full.                    *)
(***************************************************************************)
EXTENDS Integers

CONSTANTS
  Commitments, Currencies,
  Keys,         \* identities of operations
  Moneys,       \* the amounts a refund may have
  Committed,    \* per commitment: Money, or NoMoney when it has no price
  Root,         \* per commitment: the root of its tree
  InTree,       \* the commitments that have a parent or children
  Opening,      \* per commitment: its first phase
  Eps, NoMoney

VARIABLES phase, paid, treePaid, settled

accountVars == <<phase, paid, treePaid, settled>>

Within(limit, total) == total < limit.amount + Eps
Full(limit, total) == total - limit.amount < Eps /\ limit.amount - total < Eps

Release(c, m) == paid' = [paid EXCEPT ![c][m.currency] = @ + m.amount]

Init ==
  /\ phase = Opening
  /\ paid = [c \in Commitments |-> [m \in Currencies |-> 0]]
  /\ treePaid = [c \in Commitments |-> NoMoney]
  /\ settled = {}

SpentInTree(r) == IF treePaid[r] = NoMoney THEN 0 ELSE treePaid[r].amount

CountInTree(c, m) ==
  IF c \in InTree
  THEN LET r == Root[c]
       IN /\ treePaid' = [treePaid EXCEPT ![r] = [amount   |-> SpentInTree(r) + m.amount,
                                                  currency |-> m.currency]]
          /\ Committed[r] # NoMoney /\ Committed[r].currency = m.currency
               => Within(Committed[r], SpentInTree(r) + m.amount)
  ELSE treePaid' = treePaid

\* Each step but stuttering consumes a key that no step consumed before (Next).

\* Pay back some of what was committed, in the currency it was committed in.
PayBack(c, m) ==
  LET total == paid[c][m.currency] + m.amount
  IN /\ phase[c] = "open"
     /\ Committed[c] # NoMoney /\ Committed[c].currency = m.currency
     /\ Within(Committed[c], total)
     /\ Release(c, m) /\ CountInTree(c, m)
     /\ phase' = [phase EXCEPT ![c] = IF Full(Committed[c], total) THEN "refunded" ELSE "open"]

\* One refund in another currency, or of a commitment without a price, closes it.
PayOtherwise(c, m) ==
  /\ phase[c] = "open"
  /\ Committed[c] = NoMoney \/ Committed[c].currency # m.currency
  /\ Release(c, m)
  /\ phase' = [phase EXCEPT ![c] = "refunded"]
  /\ UNCHANGED treePaid

\* The commitment moves on without money leaving it, or is cancelled.
Progress(c) ==
  /\ phase[c] = "open"
  /\ \E p \in {"open", "cancelled"} : phase' = [phase EXCEPT ![c] = p]
  /\ UNCHANGED <<paid, treePaid>>

Next ==
  \E k \in Keys \ settled :
    /\ settled' = settled \cup {k}
    /\ \E c \in Commitments :
         \/ \E m \in Moneys : PayBack(c, m) \/ PayOtherwise(c, m)
         \/ Progress(c)

Spec == Init /\ [][Next]_accountVars
=============================================================================
