------------------------------ MODULE MCHosts ------------------------------
(* Two hosts that each keep a session of their own over one initial world: a  *)
(* returns desk, and a session that several agents share.  A behaviour is at  *)
(* one of them.                                                               *)
EXTENDS Returns, TLC

CONSTANTS
  o1, o2, x1, x2, y1, y2, ghost, r1, r2, r3, r4, r5, first, second, again, alice, bob, USD, EUR,
  Desks   \* the hosts of the run

VARIABLES
  desk,
  sharedWorld, sharedLedger, sharedTreeLedger, sharedApplied, sharedPaid, plan, log, moves

sharedVars ==
  <<sharedWorld, sharedLedger, sharedTreeLedger, sharedApplied, sharedPaid, plan, log, moves>>

Shared == INSTANCE Agents WITH
  world <- sharedWorld, ledger <- sharedLedger, treeLedger <- sharedTreeLedger,
  applied <- sharedApplied, paid <- sharedPaid

-----------------------------------------------------------------------------

Usd(n) == [amount |-> n, currency |-> USD]
Eur(n) == [amount |-> n, currency |-> EUR]

\* An order whose lines add up to its price, and one without a price whose lines are in
\* two currencies.
MCCommitted ==
  o1 :> Usd(7) @@ x1 :> Usd(4) @@ x2 :> Usd(3) @@ o2 :> NoMoney @@ y1 :> Usd(3) @@ y2 :> Eur(3)
MCParent == o1 :> None @@ o2 :> None @@ x1 :> o1 @@ x2 :> o1 @@ y1 :> o2 @@ y2 :> o2
MCChildren ==
  o1 :> {x1, x2} @@ o2 :> {y1, y2} @@ x1 :> {} @@ x2 :> {} @@ y1 :> {} @@ y2 :> {}
MCInitially == [c \in Commitments |-> Plain(IF c \in {o1, o2} THEN "Accepted" ELSE "Fulfilled")]
MCFulfillments == [f \in {} |-> None]

Line(c, money) == [line |-> c, amount |-> money]
Return(o, lines) == [order |-> o, lines |-> lines]

\* r1 and r2 do not both fit: whichever comes second fails on its last line; r3 mixes two
\* currencies; r4 returns a line in another currency than it was priced in; r5 names
\* another order's line and is never opened.
MCRmas ==
  r1 :> Return(o1, <<Line(x2, Usd(1)), Line(x1, Usd(3))>>) @@
  r2 :> Return(o1, <<Line(x2, Usd(1)), Line(x1, Usd(2))>>) @@
  r3 :> Return(o2, <<Line(y1, Usd(3)), Line(y2, Eur(3))>>) @@
  r4 :> Return(o2, <<Line(y1, Eur(1))>>) @@
  r5 :> Return(o1, <<Line(y1, Usd(1))>>)

LineRefunds ==
  {LineRefund(l[1], l[2], p) : l \in UNION {{id} \X LineNumbers(id) : id \in RmaIds}, p \in Actors}

Refund(c, money, p, k) ==
  [commitment |-> c, to |-> [type |-> "Refunded", amount |-> money], actor |-> p, key |-> k]
Move(c, t, p, k) == [commitment |-> c, to |-> Plain(t), actor |-> p, key |-> k]

\* The agents' order can be modified and accepted again; the refunds of the other order's
\* lines clash.
SharedRequests ==
  { Move(o1, "Modified", alice, None), Move(o1, "Accepted", bob, None), Move(o1, "Accepted", alice, again),
    Move(o1, "PartiallyFulfilled", bob, None), Move(o1, "Fulfilled", bob, None),
    Refund(o1, Usd(4), alice, first), Refund(o1, Usd(3), bob, second),
    Refund(y1, Usd(1), alice, None), Refund(y2, Eur(3), bob, None),
    Move(ghost, "Accepted", bob, None) }

MCRequests == LineRefunds \cup SharedRequests

-----------------------------------------------------------------------------

SharedDesk ==
  \/ \E p \in Actors, c \in {o1, y1, y2} : Shared!Read(p, c)
  \/ \E a \in SharedRequests, at \in Times :
       Shared!BelowBound(a) /\ (Shared!ActOnPlan(a, at) \/ Shared!ActFreely(a, at))

HostsInit == ReturnsInit /\ Shared!AgentsInit /\ desk \in Desks

HostsNext ==
  /\ \/ desk = "returns" /\ ReturnsNext /\ UNCHANGED sharedVars
     \/ desk = "agents" /\ SharedDesk /\ UNCHANGED returnsVars
  /\ UNCHANGED desk

HostsSpec == HostsInit /\ [][HostsNext]_<<returnsVars, sharedVars, desk>>

\* The properties of Agents, of the session the agents share.
LogTellsMoves == Shared!LogTellsMoves
NoStaleMove == Shared!NoStaleMove
=============================================================================
