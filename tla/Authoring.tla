----------------------------- MODULE Authoring -----------------------------
(***************************************************************************)
(* From a document to an enforced model.  The document is compiled and its *)
(* parts gathered into one system; the linter judges the same document;    *)
(* the system is shipped as a static artifact, or its formulas are         *)
(* resolved for the commitment at hand; its compositions are instantiated; *)
(* and the host sells at a price the resulting bounds let pass.            *)
(***************************************************************************)
EXTENDS Language

CONSTANTS
  Documents,   \* what authors write
  Options,     \* which lifecycle, profile and auction the caller selects, or None
  Subjects,    \* commitments at hand: [requested, created, endsAt, now], endsAt and now or None
  Day,         \* ticks of a day
  Offers       \* prices offered to the host

VARIABLES
  doc, options,
  subject,    \* the commitment at hand
  lint,       \* what check() found: {"error", "warning"}, or Pending
  system,     \* the compiled system, Refused, or Pending
  artifact,   \* the shipped policies, Refused, or Pending
  resolved,   \* the resolved policies, Refused, or Pending
  legs,       \* the children built from a composition, Refused, or Pending
  sold        \* history variable: the price the host sold at, or NoMoney

authoringVars == <<doc, options, subject, lint, system, artifact, resolved, legs, sold>>

Pending == [status |-> "pending"]
Refused == [status |-> "refused"]
Done(x) == [status |-> "done", result |-> x]

-----------------------------------------------------------------------------
(* systemFromDocument.                                                     *)

Names(d, kind) == {Declared(d, kind)[i].name : i \in DOMAIN Declared(d, kind)}

\* One is taken, several need the caller's word for which.
Selectable(d, kind, choice) ==
  IF choice # None THEN choice \in Names(d, kind) ELSE Cardinality(Names(d, kind)) <= 1

Selected(d, kind, choice) ==
  SelectSeq(Declared(d, kind), LAMBDA x : choice \in {None, x.name})

\* A profile and the recorded lifecycle agree about the states the system uses.
Agree(d, opts) ==
  \A l \in ToSet(Selected(d, "lifecycle", opts.lifecycle)), p \in ToSet(Declared(d, "profile")) :
    ValueOf(p.fields, "states") \subseteq ToSet(l.states)

Assembles(d, opts) ==
  /\ Compiles(d)
  /\ Selectable(d, "lifecycle", opts.lifecycle)
  /\ Selectable(d, "profile", opts.profile)
  /\ Agree(d, opts)
  /\ Selectable(d, "auction", opts.auction)

LoweredEach(sequence, Lower(_)) == [i \in DOMAIN sequence |-> Lower(sequence[i])]

\* The system; a choice the document leaves out is an empty sequence.
SystemOf(d, opts) ==
  [lifecycle    |-> LoweredEach(Selected(d, "lifecycle", opts.lifecycle), LoweredLifecycle),
   profile      |-> LoweredEach(Selected(d, "profile", opts.profile), LoweredProfile),
   auction      |-> LoweredEach(Selected(d, "auction", opts.auction), LoweredAuction),
   policies     |-> LoweredEach(Declared(d, "policy"), LAMBDA p : LoweredPolicy(d, p)),
   compositions |-> Declared(d, "composition")]

CompileSystem ==
  /\ system = Pending
  /\ system' = IF Assembles(doc, options) THEN Done(SystemOf(doc, options)) ELSE Refused
  /\ UNCHANGED <<doc, options, subject, lint, artifact, resolved, legs, sold>>

-----------------------------------------------------------------------------
(* deriveContext.                                                          *)

Monies(s)   == SelectSeq(s.requested, LAMBDA v : v.money # NoMoney)
MoneyCurrencies(s) == {Monies(s)[i].money.currency : i \in DOMAIN Monies(s)}
Total(s)    == FoldLeft(LAMBDA sum, v : sum + v.money.amount, 0, Monies(s))
Quantity(s) == FoldLeft(LAMBDA sum, v : sum + v.quantity, 0, s.requested)
WholeDays(from, to) == IF to < from THEN 0 ELSE (to - from) \div Day

\* The subject's money, if it has some and in one currency.
CommittedTotal(s) ==
  IF Cardinality(MoneyCurrencies(s)) = 1
  THEN [amount |-> Total(s), currency |-> CHOOSE cur \in MoneyCurrencies(s) : TRUE]
  ELSE NoMoney

\* A variable that cannot be derived is left out; it is not zero.
Available(s) ==
  {v \in ContextVariables :
     /\ v = "committed" => CommittedTotal(s) # NoMoney
     /\ v = "quantity" => Quantity(s) > 0
     /\ v \in {"term_days", "remaining_days"} => s.endsAt # None
     /\ v \in {"elapsed_days", "remaining_days"} => s.now # None}

DeriveContext(s) ==
  LET term    == IF s.endsAt = None THEN 0 ELSE WholeDays(s.created, s.endsAt)
      elapsed == IF s.now = None THEN 0 ELSE WholeDays(s.created, s.now)
      left    == IF elapsed > term THEN 0 ELSE term - elapsed
      money   == CommittedTotal(s)
  IN [v \in Available(s) |->
        CASE v = "committed"      -> MoneyLit(money.amount, money.currency)
          [] v = "quantity"       -> NumberLit(100 * Quantity(s))
          [] v = "term_days"      -> NumberLit(100 * term)
          [] v = "elapsed_days"   -> NumberLit(100 * elapsed)
          [] v = "remaining_days" -> NumberLit(100 * left)]

-----------------------------------------------------------------------------
(* resolveSystem: all policies, or the failures.                           *)

HasDerived(p) == p.derived.floor # None \/ p.derived.committed # None

\* A computed part is evaluated now; the other one was folded by the compiler.
Bound(folded, formulaLeft, ctx) ==
  IF formulaLeft = None THEN folded
  ELSE LET v == Evaluate(formulaLeft, ctx) IN IF IsMoney(v) THEN AsMoney(v) ELSE NoMoney

ResolvedBounds(p, ctx) ==
  [floor |-> Bound(p.bounds.floor, p.derived.floor, ctx),
   committed |-> Bound(p.bounds.committed, p.derived.committed, ctx)]

\* Slip: the checks of a constant are not applied to a computed value.
ResolvesUnchecked(p, ctx) ==
  \A e \in {p.derived.floor, p.derived.committed} \ {None} : IsMoney(Evaluate(e, ctx))

\* Every formula gives money, and the numbers fit as a constant's must.
Resolves(p, ctx) ==
  /\ \A e \in {p.derived.floor, p.derived.committed} \ {None} : IsMoney(Evaluate(e, ctx))
  /\ HasDerived(p) => Fits(ResolvedBounds(p, ctx).floor, ResolvedBounds(p, ctx).committed)

Enforced(p, bounds) == [id |-> p.id, profile |-> p.profile, bounds |-> bounds, pack |-> p.pack]

ResolvedPolicies(policies, ctx) ==
  [i \in DOMAIN policies |-> Enforced(policies[i], ResolvedBounds(policies[i], ctx))]

ResolveFor(policies, s) ==
  IF \A i \in DOMAIN policies : Resolves(policies[i], DeriveContext(s))
  THEN Done(ResolvedPolicies(policies, DeriveContext(s)))
  ELSE Refused

Resolve ==
  /\ system.status = "done" /\ resolved = Pending
  /\ resolved' = ResolveFor(system.result.policies, subject)
  /\ UNCHANGED <<doc, options, subject, lint, system, artifact, legs, sold>>

-----------------------------------------------------------------------------
(* serializeSystem.                                                        *)

\* Slip: a policy whose opening price is given counts as complete.
UndeployableUnpriced(policies) ==
  {i \in DOMAIN policies : HasDerived(policies[i]) /\ policies[i].bounds.committed = NoMoney}

Undeployable(policies) == {i \in DOMAIN policies : HasDerived(policies[i])}

Ship ==
  /\ system.status = "done" /\ artifact = Pending
  /\ LET policies == system.result.policies
     IN artifact' = IF Undeployable(policies) = {}
                    THEN Done([i \in DOMAIN policies |-> Enforced(policies[i], policies[i].bounds)])
                    ELSE Refused
  /\ UNCHANGED <<doc, options, subject, lint, system, resolved, legs, sold>>

-----------------------------------------------------------------------------
(* check: each declaration by itself, a policy with every profile, then    *)
(* the document as a whole, then what cannot be shipped.                   *)

NoOptions == [lifecycle |-> None, profile |-> None, auction |-> None]

\* Slip: a policy is looked at alone.
ByItselfAlone(d, i) == <<d[i]>>

\* The document a declaration is compiled in.
ByItself(d, i) == IF d[i].kind = "policy" THEN Declared(d, "profile") \o <<d[i]>> ELSE <<d[i]>>

\* A profile's own error is reported by the profile, not again by each policy.
BrokenProfile(d) == ~Compiles(Declared(d, "profile"))

DeclarationErrors(d) ==
  {i \in DOMAIN d : ~Compiles(ByItself(d, i)) /\ ~(d[i].kind = "policy" /\ BrokenProfile(d))}

Diagnostics(d) ==
  IF DeclarationErrors(d) # {} \/ ~Assembles(d, NoOptions) THEN {"error"}
  ELSE IF Undeployable(SystemOf(d, NoOptions).policies) # {} THEN {"warning"} ELSE {}

Check ==
  /\ lint = Pending
  /\ lint' = Done(Diagnostics(doc))
  /\ UNCHANGED <<doc, options, subject, system, artifact, resolved, legs, sold>>

-----------------------------------------------------------------------------
(* buildComposition: a child for every leg, or none and the failures.      *)

LegAmounts(composition, s) ==
  [i \in DOMAIN composition.legs |-> Evaluate(composition.legs[i].amount, DeriveContext(s))]

BuildFrom(composition, s) ==
  LET amounts == LegAmounts(composition, s)
  IN IF \A i \in DOMAIN amounts : IsMoney(amounts[i])
     THEN Done([i \in DOMAIN amounts |-> AsMoney(amounts[i])])
     ELSE Refused

Build ==
  /\ system.status = "done" /\ legs = Pending
  /\ \E composition \in ToSet(system.result.compositions) : legs' = BuildFrom(composition, subject)
  /\ UNCHANGED <<doc, options, subject, lint, system, artifact, resolved, sold>>

-----------------------------------------------------------------------------
(* The host concedes a price under the bounds of the model it runs: the    *)
(* artifact it loaded, or the one it resolved.                             *)

SubjectPrice(b, s) == IF b.committed # NoMoney THEN b.committed ELSE CommittedTotal(s)

\* guardConcession's budget, for bounds a policy carries (runModel holds each).
LetsPass(b, s, price) ==
  LET opening == SubjectPrice(b, s)
  IN b.floor # NoMoney =>
     /\ opening # NoMoney /\ opening.currency = b.floor.currency /\ b.floor.amount <= opening.amount
     /\ price.currency = opening.currency
     /\ ~OverConcession(opening.amount, b.floor.amount, price.amount)

Sell(model) ==
  /\ model.status = "done" /\ sold = NoMoney
  /\ \E price \in Offers :
       /\ \A i \in DOMAIN model.result : LetsPass(model.result[i].bounds, subject, price)
       /\ sold' = price
  /\ UNCHANGED <<doc, options, subject, lint, system, artifact, resolved, legs>>

AuthoringInit ==
  /\ doc \in Documents /\ options \in Options /\ subject \in Subjects
  /\ lint = Pending /\ system = Pending /\ artifact = Pending /\ resolved = Pending
  /\ legs = Pending /\ sold = NoMoney

AuthoringNext ==
  CompileSystem \/ Check \/ Ship \/ Resolve \/ Build \/ Sell(artifact) \/ Sell(resolved)

-----------------------------------------------------------------------------
(* Properties.                                                             *)

\* The document with its formulas replaced by the values they have for a commitment.
Valued(e, s) == IF Evaluate(e, DeriveContext(s)) = Undefined THEN e ELSE Evaluate(e, DeriveContext(s))

Literally(d, s) ==
  [d EXCEPT !.fields =
     [i \in DOMAIN d.fields |->
        IF d.fields[i].key \in {"concession_floor", "committed_price"}
        THEN [d.fields[i] EXCEPT !.value = Valued(@, s)] ELSE d.fields[i]]]

LiteralDocument(d, s) ==
  [i \in DOMAIN d |-> IF d[i].kind = "policy" THEN Literally(d[i], s) ELSE d[i]]

\* A formula decides how a number is produced and never whether it is checked: resolving
\* a document for a commitment does what compiling it would have done, had the author
\* written the values instead of the formulas; it fails exactly when that is refused or
\* leaves a formula without a value.
DerivedIsLiteral ==
  resolved # Pending =>
    LET literal  == LiteralDocument(doc, subject)
        lowered  == SystemOf(literal, options).policies
        succeeds == Assembles(literal, options) /\ Undeployable(lowered) = {}
    IN resolved = IF succeeds
                  THEN Done([i \in DOMAIN lowered |-> Enforced(lowered[i], lowered[i].bounds)])
                  ELSE Refused

\* No rule is lost between the author and the host: a price sold under the artifact or
\* the resolved model is at or above every floor the document sets, to the tolerance, as
\* that floor evaluates for the commitment sold, and in its currency.
NoRuleLost ==
  sold # NoMoney =>
    \A i \in DOMAIN doc :
      doc[i].kind = "policy" /\ FloorOf(doc[i]) # None =>
        LET floor == Evaluate(FloorOf(doc[i]), DeriveContext(subject))
        IN IsMoney(floor) /\ floor.currency = sold.currency /\ sold.amount + Eps > floor.amount

\* The linter and the compiler never disagree - what check() passes without an error
\* compiles as it stands, what it passes without a warning ships, and nothing else does -
\* and the order of the declarations does not matter: written backwards, the document is
\* refused or compiled alike, to the same policies.
LintIsSound ==
  /\ lint # Pending /\ options = NoOptions =>
       /\ system # Pending => (system = Refused <=> "error" \in lint.result)
       /\ artifact # Pending => (artifact = Refused <=> "warning" \in lint.result)
  /\ system # Pending =>
       /\ Assembles(Reverse(doc), options) <=> system # Refused
       /\ system # Refused =>
            ToSet(SystemOf(Reverse(doc), options).policies) = ToSet(system.result.policies)
=============================================================================
