------------------------------ MODULE Protocols ------------------------------
(***************************************************************************)
(* The commerce MCP server and its protocol bridge.  Agents call stateless *)
(* tools with the host's world: guard_action judges a move stated in the   *)
(* model's terms, guard_protocol_action first maps what an agentic-commerce *)
(* protocol (ACP, UCP, AP2) is about to commit onto a move, or says that    *)
(* it has none.  Beside the server a metrics wrapper tallies the verdicts   *)
(* of a guard.                                                             *)
(*                                                                         *)
(* The host is external: it hands each call its present world and keeps     *)
(* verdict.next when a verdict allows the move.                             *)
(***************************************************************************)
EXTENDS CommerceModel, Functions

CONSTANTS
  Calls,           \* guard_protocol_action's arguments: [protocol, action]
  Proposals,       \* guard_action's: [commitment, to, actor, key]
  StartsAs,        \* per commitment: its state in the host's first world
  Deliveries0,     \* the fulfillments that world may have
  MinorPerUnit,    \* 10 to the currencyDecimals of each currency
  BridgeClocks,    \* what the server's clock may show
  MaxCalls         \* bound: calls in a behaviour

ASSUME BridgeAssumption ==
  /\ MinorPerUnit \in [Currencies -> Nat \ {0}] /\ BridgeClocks \subseteq Nat
  /\ StartsAs \in [Commitments -> States] /\ Actors # {}
  /\ None \notin StateTypes /\ \A f \in Deliveries0 : IsFiniteSet(DOMAIN f)
  /\ Proposals \subseteq Actions({})
  /\ \A c \in Calls :
       /\ c.action.shape \in {"acp", "ucp", "ap2"} /\ c.action.currency \in Currencies
       /\ c.action.minor \in Int \cup (IF c.action.shape = "ap2" THEN {} ELSE {None})

VARIABLES
  held,        \* the host's world: id -> commitment
  deliveries,  \* its fulfillments
  verdict,     \* the last tool's answer
  asked,       \* the move it judged, or None
  stated,      \* history variable: id -> minor units the protocol said to refund, or None
  calls,       \* calls so far
  counted,     \* MetricsCollector: [totalAllowed, totalBlocks, byRule, byScope]
  judged       \* history variable: the verdicts it was shown since it was reset

toolVars == <<held, deliveries, verdict, asked, stated, calls>>
metricVars == <<counted, judged>>
protocolVars == <<toolVars, metricVars>>

-----------------------------------------------------------------------------
(* guardAction's verdict in full.                                           *)

\* One line of a verdict: the rule, the commitment its text names, or None, and where; in
\* a history the place is the entry, below 0 for its time, and of a fulfillment its id.
Violation(rule, c, place) == [rule |-> rule, of |-> c, place |-> place]

HistoryViolations(c, h) ==
  {Violation("I-2", c, i) : i \in {j \in DOMAIN h : ~IsValidCommitmentTransition(h[j].from, h[j].to)}}
  \cup {Violation("I-2", c, -i) : i \in {j \in 2..Len(h) : h[j].at < h[j - 1].at}}

\* auditCommerce, line by line.  That a delivery started before the acceptance is told
\* without naming the commitment.
Violations(w, f) ==
  {Violation("I-1", c, 0) : c \in {x \in DOMAIN w : ~CheckI1([y \in {x} |-> w[y]])}}
  \cup (UNION {HistoryViolations(c, w[c].history) : c \in DOMAIN w})
  \cup {Violation("I-3", c, 0) : c \in {x \in DOMAIN w : ~CheckI3(x, w[x])}}
  \cup {Violation("I-4", IF WasAccepted(w[f[x].commitment]) THEN None ELSE f[x].commitment, x) :
          x \in {y \in DOMAIN f : \E c \in DOMAIN w : ~CheckI4(c, w[c], [z \in {y} |-> f[z]])}}
  \cup {Violation("I-6", c, 0) : c \in {x \in DOMAIN w : ~CheckI6(x)}}

\* A rejection offers the legal moves - marking the one that was refused for its data - or
\* nothing where another move would not help.
Alternatives(from, bounded) == [t \in CommitmentTransitions[from.type] |-> t = bounded]
Blocked(violations, offered) == [ok |-> FALSE, violations |-> violations, alternatives |-> offered]
TurnedDown(rule, a, offered) == Blocked({Violation(rule, a.commitment, 0)}, offered)

\* Some violation cites the commitment that was moved.
Bounded(a, violations) ==
  IF \E v \in violations : v.of = a.commitment THEN a.to.type ELSE None

GuardAction(w, f, a, expected, at) ==
  IF a.commitment \notin DOMAIN w THEN TurnedDown("unknown-commitment", a, None)
  ELSE LET state == w[a.commitment].state
           next  == MoveIn(w, a, at)
           found == Violations(next, f)
       IN IF VersionConflict(w[a.commitment], expected) THEN TurnedDown("version-conflict", a, None)
          ELSE IF ~IsValidCommitmentTransition(state, a.to)
          THEN TurnedDown("I-2", a, Alternatives(state, None))
          ELSE IF at < LastAt(w[a.commitment]) THEN TurnedDown("I-4", a, None)
          ELSE IF found # {} THEN Blocked(found, Alternatives(state, Bounded(a, found)))
          ELSE [ok |-> TRUE, next |-> next]

-----------------------------------------------------------------------------
(* Mapping.  A payload is [shape, object, move, id, currency, minor, actor]: *)
(* the object that moves, its status or the operation on it, and an amount   *)
(* in minor units, None when left out.                                       *)

\* Slip: every currency has a hundred minor units.
MoneyFromHundredths(minor, currency) ==
  [amount |-> (minor * 2 * Eps * MinorPerUnit[currency]) \div 100, currency |-> currency]

\* A currency's amounts are kept in units of which a minor unit has twice Eps.
MoneyFromMinor(minor, currency) ==
  [amount   |-> (minor * 2 * Eps * MinorPerUnit[currency]) \div MinorPerUnit[currency],
   currency |-> currency]

Gap == None   \* no sound counterpart: nothing is judged

RefundOfMinor(p) == [type |-> "Refunded", amount |-> MoneyFromMinor(p.minor, p.currency)]

\* The words that always mean a state; the others are gaps, or refunds.
AcpSession == [ready_for_payment |-> "Proposed", completed |-> "Accepted", canceled |-> "Cancelled"]
AcpOrder == [confirmed |-> "Accepted", fulfilled |-> "Fulfilled", canceled |-> "Cancelled"]
UcpCart == [checkout |-> "Proposed"]
UcpOrder == [place_order |-> "Accepted", cancel |-> "Cancelled", add_item |-> "Modified",
             update_item |-> "Modified", remove_item |-> "Modified"]
Ap2Operation == [authorize |-> "Accepted"]

Meant(words, p) == IF p.move \in DOMAIN words THEN Plain(words[p.move]) ELSE Gap

FromAcpAction(p) ==
  IF p.object = "checkout_session" THEN Meant(AcpSession, p)
  ELSE IF p.move = "refunded" /\ p.minor # None THEN RefundOfMinor(p)
  ELSE Meant(AcpOrder, p)

FromUcpAction(p) == Meant(IF p.object = "cart" THEN UcpCart ELSE UcpOrder, p)

FromAp2Action(p) == IF p.move = "refund" THEN RefundOfMinor(p) ELSE Meant(Ap2Operation, p)

MapProtocolAction(protocol, p) ==
  CASE protocol = "acp" -> FromAcpAction(p)
    [] protocol = "ucp" -> FromUcpAction(p)
    [] protocol = "ap2" -> FromAp2Action(p)

ProtocolMove(protocol, p) ==
  [commitment |-> p.id, to |-> MapProtocolAction(protocol, p), actor |-> p.actor, key |-> None]

-----------------------------------------------------------------------------
(* The tools.                                                              *)

Unjudged == [ok |-> FALSE, violations |-> {}, alternatives |-> None]

\* The host keeps what a verdict allows.
Told(a, v, minor) ==
  /\ calls < MaxCalls /\ calls' = calls + 1
  /\ asked' = a /\ verdict' = v
  /\ IF v.ok
     THEN held' = v.next /\ stated' = [stated EXCEPT ![a.commitment] = minor]
     ELSE UNCHANGED <<held, stated>>
  /\ UNCHANGED deliveries

\* A caller knows some version of the commitment, or none.
PlannedAgainst(a) ==
  {None} \cup IF a.commitment \in DOMAIN held THEN ReadableVersions(held[a.commitment]) ELSE {}

Judged(a, expected, at) == GuardAction(held, deliveries, a, expected, at)

GuardActionTool ==
  /\ \E a \in Proposals : \E expected \in PlannedAgainst(a), at \in BridgeClocks :
       Told(a, Judged(a, expected, at), None)
  /\ UNCHANGED metricVars

\* The payload parses as an action of the protocol it is tagged with.
FitsShape(c) == c.action.shape = c.protocol

\* A payload of another shape is a tool error: it was not judged.
GuardProtocolActionTool ==
  /\ \E c \in Calls, at \in BridgeClocks :
       IF ~FitsShape(c) \/ MapProtocolAction(c.protocol, c.action) = Gap
       THEN Told(None, Unjudged, None)
       ELSE LET a == ProtocolMove(c.protocol, c.action)
            IN Told(a, Judged(a, None, at),
                        IF a.to.type = "Refunded" THEN c.action.minor ELSE None)
  /\ UNCHANGED metricVars

-----------------------------------------------------------------------------
(* withMetrics(guardAction): the host judges moves of its own and counts.   *)

Rules == {"unknown-commitment", "version-conflict", "I-1", "I-2", "I-3", "I-4", "I-6"}
NoTally == [totalAllowed |-> 0, totalBlocks |-> 0,
            byRule |-> [r \in Rules |-> 0], byScope |-> [t \in StateTypes |-> 0]]

CitationsOf(violations, r) == Cardinality({v \in violations : v.rule = r})

\* Slip: a rule is counted once per block, however often it is cited.
RecordBlockOnce(t, violations, scope) ==
  [t EXCEPT !.totalBlocks = @ + 1,
            !.byRule = [r \in Rules |-> @[r] + (IF CitationsOf(violations, r) > 0 THEN 1 ELSE 0)],
            !.byScope[scope] = @ + 1]

RecordBlock(t, violations, scope) ==
  [t EXCEPT !.totalBlocks = @ + 1,
            !.byRule = [r \in Rules |-> @[r] + CitationsOf(violations, r)],
            !.byScope[scope] = @ + 1]

RecordAllowed(t) == [t EXCEPT !.totalAllowed = @ + 1]

MeteredGuard ==
  \E a \in Proposals : \E expected \in PlannedAgainst(a), at \in BridgeClocks :
    LET v == Judged(a, expected, at)
    IN /\ Told(a, v, None)
       /\ counted' = IF v.ok THEN RecordAllowed(counted) ELSE RecordBlock(counted, v.violations, a.to.type)
       /\ judged' = Append(judged, [ok |-> v.ok, scope |-> a.to.type,
                                    violations |-> IF v.ok THEN {} ELSE v.violations])

ResetMetrics == judged # <<>> /\ counted' = NoTally /\ judged' = <<>> /\ UNCHANGED toolVars

-----------------------------------------------------------------------------

FirstHeld == [c \in Commitments |-> Synthesized(StartsAs[c], CHOOSE p \in Actors : TRUE)]

ProtocolsInit ==
  /\ held = FirstHeld /\ deliveries \in Deliveries0
  /\ verdict = Unjudged /\ asked = None /\ calls = 0
  /\ stated = [c \in Commitments |-> None]
  /\ counted = NoTally /\ judged = <<>>

ProtocolsNext == GuardActionTool \/ GuardProtocolActionTool \/ MeteredGuard \/ ResetMetrics

ProtocolsSpec == ProtocolsInit /\ [][ProtocolsNext]_protocolVars

-----------------------------------------------------------------------------
(* Properties.                                                             *)

\* Whichever tools and protocols moved it, every commitment has one unbroken history, and
\* nothing moves in a world that does not audit, unless the move makes it audit.
MovesAreAudited ==
  /\ \A c \in Commitments : UnbrokenHistory(held[c])
  /\ held = FirstHeld \/ Violations(held, deliveries) = {}

\* What a commitment holds as refunded through a protocol is what the payload stated in
\* minor units of its currency, over every protocol and retry once, and in the committed
\* currency not half a minor unit more than was committed.
RefundsAsStated ==
  \A c \in Commitments :
    stated[c] # None =>
      LET refund == held[c].state.amount
      IN /\ held[c].state.type = "Refunded"
         /\ refund.amount = stated[c] * 2 * Eps
         /\ Committed[c] # NoMoney /\ Committed[c].currency = refund.currency =>
              stated[c] * 2 * Eps < Committed[c].amount + Eps

\* The advice of a rejection is right: it offers exactly the moves that are legal from
\* where the commitment still is, and in a world that audits it marks one of them as
\* needing other data exactly when that is the move that was refused - unless nothing is
\* wrong but that a delivery started earlier, a violation that names no commitment.
AdviceIsRight ==
  ~verdict.ok /\ verdict.alternatives # None =>
    LET legal == CommitmentTransitions[held[asked.commitment].state.type]
    IN /\ DOMAIN verdict.alternatives = legal
       /\ Violations(held, deliveries) = {} /\ (\E v \in verdict.violations : v.of # None) =>
            {t \in legal : verdict.alternatives[t]} = legal \cap {asked.to.type}

\* A call of the bridge moves the world soundly or tells the agent rightly why it did not.
ProtocolsMoveSoundly == MovesAreAudited /\ RefundsAsStated /\ AdviceIsRight

\* The collector's snapshot tells the verdicts it was shown since its last reset: every
\* one once, every block under one scope and under each rule as often as it was cited.
TallyTells ==
  LET blocks == {i \in DOMAIN judged : ~judged[i].ok}
  IN /\ counted.totalBlocks = Cardinality(blocks)
     /\ counted.totalAllowed = Len(judged) - Cardinality(blocks)
     /\ \A t \in StateTypes : counted.byScope[t] = Cardinality({i \in blocks : judged[i].scope = t})
     /\ \A r \in Rules :
          counted.byRule[r] =
            SumFunctionOnSet([i \in blocks |-> CitationsOf(judged[i].violations, r)], blocks)
=============================================================================
