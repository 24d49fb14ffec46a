----------------------------- MODULE Negotiation -----------------------------
(***************************************************************************)
(* guardConcession: offers, counters and acceptances on one commitment.    *)
(* Each step is held against the concession budget, then proposed to the   *)
(* session the negotiation opened; the price on the table and what has     *)
(* been conceded move only when both accept it.                            *)
(***************************************************************************)
EXTENDS Session, Pricing

CONSTANTS
  Deal,      \* the commitment that is negotiated
  Limits,    \* the merchant's bounds on it
  Prices,    \* the prices a step may name
  MaxSteps   \* bound: no more steps than this

ASSUME LimitsAssumption == ~Malformed(Limits, Deal)

\* Prices are money, and the keys the guard makes for its steps are keys.
ASSUME StepsAssumption ==
  /\ MaxSteps \in Nat
  /\ Prices \subseteq Money /\ Limits.floor \in Money /\ Limits.committed \in Money \cup {NoMoney}
  /\ \A n \in 0..MaxSteps, kind \in DOMAIN TargetOf : <<"negotiation", Deal, n, kind>> # None

VARIABLES
  standing,  \* the price on the table
  conceded,  \* what the last accepted step gives back
  steps,     \* the number of steps tried
  tabled     \* history variable: the prices of the accepted steps, in order

negotiationVars == <<vars, standing, conceded, steps, tabled>>

Opening == OpeningPrice(Limits, Deal)

\* Slip: the key tells offers, counters and acceptances apart, and nothing more.
StepMoveByKind(kind, by) ==
  [commitment |-> Deal, to |-> Plain(TargetOf[kind]), actor |-> by,
   key |-> <<"negotiation", Deal, kind>>]

\* The action behind a step.  Its key counts the steps tried, so that two steps that
\* look alike are not taken for a retry.
StepMove(kind, by) ==
  [commitment |-> Deal, to |-> Plain(TargetOf[kind]), actor |-> by,
   key |-> <<"negotiation", Deal, steps, kind>>]

\* A step that names no price carries the standing one forward.
PriceOf(named) == IF named = NoMoney THEN standing ELSE named

WithinBudget(price) ==
  /\ price.currency = Opening.currency
  /\ ~OverConcession(Opening.amount, Limits.floor.amount, price.amount)

\* The session's verdict is ok; a replay is.
StepOk(kind, by, at) ==
  LET move == StepMove(kind, by)
  IN IsReplay(move) \/ Accepted(move, None, at)

\* A step within the budget goes to the session, whose verdict decides.
Take(kind, named, by, at) ==
  /\ Propose(StepMove(kind, by), None, at)
  /\ IF StepOk(kind, by, at)
     THEN /\ standing' = PriceOf(named)
          /\ conceded' = Conceded(Opening.amount, PriceOf(named).amount)
          /\ tabled' = Append(tabled, PriceOf(named))
     ELSE UNCHANGED <<standing, conceded, tabled>>

\* A step over the budget, or in another currency, never reaches the session.
Refuse(named) == ~WithinBudget(PriceOf(named)) /\ UNCHANGED <<vars, standing, conceded, tabled>>

Concede(kind, named, by, at) ==
  /\ steps < MaxSteps
  /\ \/ WithinBudget(PriceOf(named)) /\ Take(kind, named, by, at)
     \/ Refuse(named)
  /\ steps' = steps + 1

NegotiationInit ==
  /\ Init
  /\ standing = Opening /\ conceded = 0 /\ steps = 0 /\ tabled = <<>>

NegotiationNext ==
  \E kind \in DOMAIN TargetOf, named \in Prices \cup {NoMoney}, by \in Actors, at \in Times :
    Concede(kind, named, by, at)

NegotiationSpec == NegotiationInit /\ [][NegotiationNext]_negotiationVars

-----------------------------------------------------------------------------
(* Properties.                                                             *)

\* The price on the table is the one of the last move the commitment made: one price per
\* recorded move, none for a step that the budget or the table of moves refused, and no
\* step lost because it looks like an earlier one.
StandingTellsMoves ==
  /\ Len(tabled) = Len(world[Deal].history) - Len(InitialWorld[Deal].history)
  /\ standing = IF tabled = <<>> THEN Opening ELSE tabled[Len(tabled)]
  /\ conceded = Conceded(Opening.amount, standing.amount)

=============================================================================
