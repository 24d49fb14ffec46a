---------------------------- MODULE Conformance ----------------------------
(***************************************************************************)
(* The conformance suite's reference runner.  It goes through the manifest, *)
(* judges every fixture by rules of its own - written again from the        *)
(* schema, without the library - and exits with 0 when each came out as its *)
(* manifest entry says.                                                    *)
(*                                                                         *)
(* A fixture is [kind, payload]: a "scene" [world, fulfillments], a          *)
(* "transition-sequence" [primitive, initial, steps] or a "money-breakdown". *)
(* All of them are well-formed: the JSON Schema validator in front of the    *)
(* rules is left out, and with it the state catalogs, which it alone judges, *)
(* and the round trips of money, which try floating-point division.          *)
(*                                                                         *)
(* Like the toolkits of PortAgents it is the library written a second time.  *)
(***************************************************************************)
EXTENDS PortAgents, Protocols, Pricing, Adapters, SequencesExt

CONSTANT Manifests   \* sequences of entries [fixture, expect, rule]

\* What the JSON Schema lets through.
Stages == [type : DOMAIN FulfillmentTransitions, recoverable : BOOLEAN]
Scenes(p) ==
  /\ p.world \in [Commitments -> Commitment]
  /\ \A x \in DOMAIN p.fulfillments : p.fulfillments[x].startedAt \in Nat \cup {None}
Walks(p) ==
  LET states == IF p.primitive = "commitment" THEN States ELSE Stages
  IN /\ p.primitive \in {"commitment", "fulfillment"}
     /\ p.initial \in states /\ p.steps \in Seq([to : states, expect : {"accept", "reject"}])
SchemaAllows(fixture) ==
  \/ fixture.kind = "scene" /\ Scenes(fixture.payload)
  \/ fixture.kind = "transition-sequence" /\ Walks(fixture.payload)
  \/ fixture.kind = "money-breakdown" /\ IsListOfParts(fixture.payload.components)

\* The one rule a fixture that is no scene can break.
OnlyRule == [kind \in {"transition-sequence", "money-breakdown"} |->
              IF kind = "money-breakdown" THEN "money_breakdown_sum" ELSE "SEQUENCE"]

\* A manifest cites of such a fixture that rule, or none.
ASSUME ManifestsAssumption ==
  \A m \in Manifests : DOMAIN m = 1..Len(m) /\ Len(m) \in Nat /\ \A i \in DOMAIN m :
    /\ SchemaAllows(m[i].fixture) /\ m[i].expect \in {"accept", "reject"}
    /\ m[i].fixture.kind \in DOMAIN OnlyRule => m[i].rule \in {None, OnlyRule[m[i].fixture.kind]}

VARIABLES
  manifest,   \* the manifest that is run
  results,    \* per fixture run: [accepted, rules]
  suiteExit   \* the exit code, or None while the suite runs

conformanceVars == <<manifest, results, suiteExit>>

-----------------------------------------------------------------------------
(* The runner's rules.                                                     *)

IsValidTransition(primitive, from, to) ==
  IF primitive = "commitment" THEN to.type \in CommitmentTransitions[from.type]
  ELSE IF from.type = "Failed" THEN to.type = "Planned" /\ from.recoverable
  ELSE to.type \in FulfillmentTransitions[from.type]

ReachedAccepted(c) ==
  c.state.type \in AcceptedOrLater \/ \E i \in DOMAIN c.history : c.history[i].to.type = "Accepted"

\* Slip: a history may run backwards in time.
UnsteadyMoves(h) ==
  \E i \in DOMAIN h : ~IsValidTransition("commitment", h[i].from, h[i].to)

Unsteady(h) ==
  \/ \E i \in DOMAIN h : ~IsValidTransition("commitment", h[i].from, h[i].to)
  \/ \E i \in 2..Len(h) : h[i].at < h[i - 1].at

OverRefunds(c, state) ==
  /\ state.type = "Refunded" /\ Committed[c] # NoMoney
  /\ state.amount.currency = Committed[c].currency
  /\ state.amount.amount > Committed[c].amount
  /\ ~MoneyEquals(state.amount.amount, Committed[c].amount)

StartsEarly(c, f) ==
  LET accepted == {i \in DOMAIN c.history : c.history[i].to.type = "Accepted"}
  IN IF accepted = {} THEN f.state.type \in {"InProgress", "Completed"}
     ELSE f.startedAt # None /\ f.startedAt < c.history[Min(accepted)].at

\* Only children of the scene count, and only those that are worth money.
Unbalanced(c, w) ==
  LET kids  == Children[c] \cap DOMAIN w
      worth == {k \in kids : Committed[k] # NoMoney}
  IN /\ kids # {} /\ Committed[c] # NoMoney
     /\ \/ \E k \in worth : Committed[k].currency # Committed[c].currency
        \/ ~MoneyEquals(MapThenSumSet(LAMBDA k : Committed[k].amount, worth), Committed[c].amount)

AuditScene(w, f) ==
  {rule \in {"I-1", "I-2", "I-3", "I-4", "I-6"} : \E c \in DOMAIN w :
     \/ rule = "I-1" /\ OverRefunds(c, w[c].state)
     \/ rule = "I-2" /\ Unsteady(w[c].history)
     \/ rule = "I-3" /\ ReachedAccepted(w[c]) /\ c \notin MayBuy
     \/ rule = "I-4" /\ \E x \in DOMAIN f : f[x].commitment = c /\ StartsEarly(w[c], f[x])
     \/ rule = "I-6" /\ Unbalanced(c, w)}

BreaksDown(b) ==
  /\ \A i \in DOMAIN b.components : b.components[i].currency = b.total.currency
  /\ MoneyEquals(FoldSeq(LAMBDA part, sum : part.amount + sum, 0, b.components), b.total.amount)

\* The state a primitive is in after each step, at 0 before the first; a refused step leaves it.
StatesPassed(p) ==
  LET passed[i \in 0..Len(p.steps)] ==
        IF i = 0 THEN p.initial
        ELSE IF IsValidTransition(p.primitive, passed[i - 1], p.steps[i].to) THEN p.steps[i].to
        ELSE passed[i - 1]
  IN passed

StepsAsExpected(p) ==
  \A i \in DOMAIN p.steps :
    IsValidTransition(p.primitive, StatesPassed(p)[i - 1], p.steps[i].to) <=> p.steps[i].expect = "accept"

Judgement(rules) == [accepted |-> rules = {}, rules |-> rules]
Unless(condition, rule) == Judgement(IF condition THEN {} ELSE {rule})

RunFixture(fixture) ==
  LET p == fixture.payload
  IN CASE fixture.kind = "scene" -> Judgement(AuditScene(p.world, p.fulfillments))
       [] fixture.kind = "transition-sequence" -> Unless(StepsAsExpected(p), "SEQUENCE")
       [] fixture.kind = "money-breakdown" -> Unless(BreaksDown(p), "money_breakdown_sum")

AsTheManifestSays(entry, result) ==
  IF entry.expect = "accept" THEN result.accepted
  ELSE ~result.accepted /\ (entry.rule # None => entry.rule \in result.rules)

-----------------------------------------------------------------------------

RunNextFixture ==
  /\ suiteExit = None /\ Len(results) < Len(manifest)
  /\ results' = Append(results, RunFixture(manifest[Len(results) + 1].fixture))
  /\ UNCHANGED <<manifest, suiteExit>>

EndSuite ==
  /\ suiteExit = None /\ Len(results) = Len(manifest)
  /\ suiteExit' = IF \A i \in DOMAIN manifest : AsTheManifestSays(manifest[i], results[i]) THEN 0 ELSE 1
  /\ UNCHANGED <<manifest, results>>

ConformanceInit == manifest \in Manifests /\ results = <<>> /\ suiteExit = None

ConformanceNext == RunNextFixture \/ EndSuite

ConformanceSpec == ConformanceInit /\ [][ConformanceNext]_conformanceVars

-----------------------------------------------------------------------------
(* What the library says of a fixture.                                     *)

AuditedRules(scene) == {v.rule : v \in Violations(scene.world, scene.fulfillments)}

Mover == CHOOSE a \in Actors : TRUE

Unmoved(p) ==
  IF p.primitive = "commitment" THEN [state |-> p.initial, history |-> <<>>]
  ELSE [NewFulfillment(None) EXCEPT !.state = p.initial]

\* A fulfillment it hands on is not the None of a refusal.
Handled ==
  [commitment : {None}, state : Stages,
   history : Seq([from : Stages, to : Stages, at : Nat, actor : {Mover}]),
   startedAt : Nat \cup {None}, completedAt : Nat \cup {None}]
ASSUME HandledAssumption == None \notin Handled

\* transitionCommitment or transitionFulfillment; a refusal leaves the object.
Attempted(p, x, to, at) ==
  LET f == FulfillmentMoved(x, to, Mover, at)
  IN IF p.primitive = "commitment"
     THEN IF TransitionOk(x, to, at) THEN Transitioned(x, to, Mover, at) ELSE x
     ELSE IF f = None THEN x ELSE f

\* The object after each step, at 0 before the first; every attempt has an instant of its own.
Replayed(p) ==
  LET replay[i \in 0..Len(p.steps)] ==
        IF i = 0 THEN Unmoved(p)
        ELSE Attempted(p, replay[i - 1], p.steps[i].to, Len(replay[i - 1].history))
  IN replay

\* A step is taken exactly when it changes the object.
TakenByLibrary(p) ==
  \A i \in DOMAIN p.steps : Replayed(p)[i] # Replayed(p)[i - 1] <=> p.steps[i].expect = "accept"

LibraryAccepts(fixture) ==
  LET p == fixture.payload
  IN CASE fixture.kind = "scene" -> AuditedRules(p) = {}
       [] fixture.kind = "transition-sequence" -> TakenByLibrary(p)
       [] fixture.kind = "money-breakdown" -> AddsUp(p)

-----------------------------------------------------------------------------
(* Properties.                                                             *)

\* The suite measures the library: each fixture comes out as the library decides it, a
\* scene with the very rules the auditor cites, and the suite exits with 0 exactly when
\* the manifest expects of every fixture what the library does with it.
RunnerJudgesAlike ==
  /\ \A i \in DOMAIN results :
       LET fixture == manifest[i].fixture
       IN /\ results[i].accepted <=> LibraryAccepts(fixture)
          /\ fixture.kind = "scene" => results[i].rules = AuditedRules(fixture.payload)
  /\ suiteExit # None =>
       (suiteExit = 0 <=>
          \A i \in DOMAIN manifest :
            LET fixture == manifest[i].fixture
            IN /\ LibraryAccepts(fixture) <=> manifest[i].expect = "accept"
               /\ manifest[i].expect = "reject" /\ manifest[i].rule # None /\ fixture.kind = "scene" =>
                    manifest[i].rule \in AuditedRules(fixture.payload))

\* Everything written a second time decides like the first: the toolkits of three other
\* languages, and the conformance runner's own rules.
CopiesAgree == PortsAgree /\ RunnerJudgesAlike
=============================================================================
