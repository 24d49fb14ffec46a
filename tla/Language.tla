------------------------------ MODULE Language ------------------------------
(***************************************************************************)
(* A .warp document: lifecycles, profiles, policies, auctions and          *)
(* compositions, lowered to the structures of the model, each declaration  *)
(* well formed or the whole document refused.  A declaration is its kind,  *)
(* its name and its fields in source order, a field being [key, value].    *)
(***************************************************************************)
EXTENDS Grammar, Pricing

Kinds == {"lifecycle", "profile", "policy", "auction", "composition"}
Invariants == {"I1", "I2", "I3", "I4", "I5", "I6"}

KeysOf(fields)        == {fields[i].key : i \in DOMAIN fields}
Given(fields, key)  == key \in KeysOf(fields)
ValuesOf(fields, key) == {fields[i].value : i \in {j \in DOMAIN fields : fields[j].key = key}}
ValueOf(fields, key) == fields[CHOOSE i \in DOMAIN fields : fields[i].key = key].value

\* A field is given once, except those that add up.
OnceEach(fields, repeatable) ==
  \A i, j \in DOMAIN fields :
    i # j /\ fields[i].key = fields[j].key => fields[i].key \in repeatable

Distinct(seq) == Cardinality(ToSet(seq)) = Len(seq)

-----------------------------------------------------------------------------
(* Lifecycles and profiles.                                                *)

\* compileLifecycle: known states, declared once; edges between them, one list for each.
WellFormedLifecycle(d) ==
  /\ ToSet(d.states) \subseteq StateTypes /\ Distinct(d.states)
  /\ \A i \in DOMAIN d.edges :
       /\ d.edges[i].from \in ToSet(d.states)
       /\ ToSet(d.edges[i].to) \subseteq ToSet(d.states) /\ Distinct(d.edges[i].to)
       /\ \A j \in DOMAIN d.edges : d.edges[i].from = d.edges[j].from => i = j

LoweredLifecycle(d) ==
  [name |-> d.name,
   transitions |-> [s \in ToSet(d.states) |->
                      UNION {ToSet(d.edges[i].to) : i \in {j \in DOMAIN d.edges : d.edges[j].from = s}}]]

\* compileProfile.
WellFormedProfile(d) ==
  /\ OnceEach(d.fields, {})
  /\ {"states", "value_forms"} \subseteq KeysOf(d.fields)
  /\ ValueOf(d.fields, "states") \subseteq StateTypes

LoweredProfile(d) ==
  [id |-> d.name, states |-> ValueOf(d.fields, "states"), forms |-> ValueOf(d.fields, "value_forms")]

-----------------------------------------------------------------------------
(* Auctions.                                                               *)

Mechanisms ==
  [English         |-> [required |-> {}, optional |-> {"reserve_price", "increment"}],
   Dutch           |-> [required |-> {"start_price", "decrement", "interval_seconds"}, optional |-> {}],
   SealedBid       |-> [required |-> {"reveal_at"}, optional |-> {"reserve_price"}],
   Vickrey         |-> [required |-> {}, optional |-> {"reserve_price"}],
   ScoredSelection |-> [required |-> {"criterion", "committee", "publication_required"},
                        optional |-> {"minimum_threshold"}]]

CloseReasons ==
  {"NormalClose", "ReserveNotMet", "BuyItNowExercised", "SellerCancelled", "AwardProtestUpheld"}

\* compileMechanism: no field of another mechanism, none missing.
WellFormedMechanism(m) ==
  /\ m.kind \in DOMAIN Mechanisms
  /\ OnceEach(m.fields, {"criterion"})
  /\ Mechanisms[m.kind].required \subseteq KeysOf(m.fields)
  /\ KeysOf(m.fields) \subseteq Mechanisms[m.kind].required \cup Mechanisms[m.kind].optional

TenderIds(d) == {d.tenders[i].id : i \in DOMAIN d.tenders}

\* compileTender.
WellFormedTender(t) ==
  OnceEach(t.fields, {}) /\ {"offer", "closes_at"} \subseteq KeysOf(t.fields)

\* compileAuctionState: only a Closed one takes fields; it is won by one of its tenders.
WellFormedAuctionState(s, bids) ==
  /\ s.type \in {"Scheduled", "Open", "Closed"}
  /\ s.type # "Closed" => s.fields = <<>>
  /\ s.type = "Closed" =>
       /\ OnceEach(s.fields, {})
       /\ Given(s.fields, "reason") /\ ValueOf(s.fields, "reason") \in CloseReasons
       /\ ValuesOf(s.fields, "winner") \subseteq bids

\* compileAuction.
WellFormedAuction(d) ==
  /\ OnceEach(d.fields, {}) /\ {"subject", "seller", "opens_at", "closes_at"} \subseteq KeysOf(d.fields)
  /\ d.mechanism # None /\ d.state # None
  /\ Cardinality(TenderIds(d)) = Len(d.tenders)
  /\ \A i \in DOMAIN d.tenders : WellFormedTender(d.tenders[i])
  /\ WellFormedMechanism(d.mechanism)
  /\ WellFormedAuctionState(d.state, TenderIds(d))

LoweredAuction(d) ==
  [id |-> d.name, bids |-> TenderIds(d),
   winner |-> IF Given(d.state.fields, "winner") THEN ValueOf(d.state.fields, "winner") ELSE None,
   price |-> IF Given(d.state.fields, "winning_price") THEN ValueOf(d.state.fields, "winning_price")
             ELSE NoMoney,
   subjectHeld |-> d.state.type = "Open"]

-----------------------------------------------------------------------------
(* Compositions.                                                           *)

KnownVariables(e) == VariablesOf(e) \subseteq ContextVariables

\* compileComposition; whether the legs reconcile is not its business.
WellFormedComposition(d) ==
  /\ OnceEach(d.fields, {})
  /\ d.legs # <<>>
  /\ Cardinality({d.legs[i].name : i \in DOMAIN d.legs}) = Len(d.legs)
  /\ \A i \in DOMAIN d.legs : d.legs[i].amount # None /\ KnownVariables(d.legs[i].amount)

-----------------------------------------------------------------------------
(* Policies: a floor and an opening price, computed or not; a profile      *)
(* narrowed; tax rates.                                                    *)

Formula(d, key) == IF Given(d.fields, key) THEN ValueOf(d.fields, key) ELSE None
FloorOf(d)   == Formula(d, "concession_floor")
OpeningOf(d) == Formula(d, "committed_price")

\* A written formula that names no variable, or that is not written.
Constant(e) == e = None \/ IsConstant(e)

AsMoney(v) == [amount |-> v.amount, currency |-> v.currency]
IsMoney(v) == v.kind = "money"
NoContext  == [x \in {} |-> None]

\* A floor is measured against an opening price of its currency, and is not above it.
Fits(floor, committed) ==
  committed # NoMoney => committed.currency = floor.currency /\ floor.amount <= committed.amount

\* evalConst's result, for a formula that is written and constant.
Folded(e) == IF e # None /\ IsConstant(e) THEN AsMoney(Evaluate(e, NoContext)) ELSE NoMoney

WellFormedBounds(d) ==
  LET floor == FloorOf(d)
      opening == OpeningOf(d)
  IN /\ \A e \in {floor, opening} \ {None} :
          KnownVariables(e) /\ (IsConstant(e) => IsMoney(Evaluate(e, NoContext)))
     /\ opening # None => floor # None
     /\ floor # None /\ Constant(floor) /\ Constant(opening) => Fits(Folded(floor), Folded(opening))

TaxRates(d) == ValuesOf(d.fields, "tax_rates")

\* Policies are lowered in a second pass, when every profile is known.
ProfilesFor(doc, d) == {doc[j] : j \in {i \in DOMAIN doc : doc[i].kind = "profile"}}

\* compilePolicy.
WellFormedPolicy(doc, d) ==
  /\ OnceEach(d.fields, {"tax_rates"})
  /\ \A i, j \in DOMAIN d.fields :
       d.fields[i].key = "tax_rates" /\ d.fields[j].key = "tax_rates" /\ i # j
         => d.fields[i].value.jurisdiction # d.fields[j].value.jurisdiction
  /\ \A names \in ValuesOf(d.fields, "forbid_states") : names \subseteq StateTypes
  /\ \A ids \in ValuesOf(d.fields, "assert") : ids \subseteq Invariants
  /\ \A id \in ValuesOf(d.fields, "applies_to") : \E p \in ProfilesFor(doc, d) : p.name = id
  /\ Given(d.fields, "forbid_states") => Given(d.fields, "applies_to")
  /\ WellFormedBounds(d)

Narrowed(doc, d) ==
  IF ~Given(d.fields, "applies_to") THEN None
  ELSE LET base == CHOOSE p \in ProfilesFor(doc, d) : p.name = ValueOf(d.fields, "applies_to")
       IN [states |-> ValueOf(base.fields, "states") \ UNION ValuesOf(d.fields, "forbid_states"),
           forms |-> ValueOf(base.fields, "value_forms")]

Derived(e) == IF Constant(e) THEN None ELSE e

\* What a policy becomes: its folded bounds, and the formulas that are left.
LoweredPolicy(doc, d) ==
  [id |-> d.name, profile |-> Narrowed(doc, d),
   bounds |-> [floor |-> Folded(FloorOf(d)), committed |-> Folded(OpeningOf(d))],
   derived |-> [floor |-> Derived(FloorOf(d)), committed |-> Derived(OpeningOf(d))],
   pack |-> [j \in {r.jurisdiction : r \in TaxRates(d)} |->
               UNION {r.rates : r \in {x \in TaxRates(d) : x.jurisdiction = j}}]]

-----------------------------------------------------------------------------
(* Documents: sequences of declarations.                                   *)

Declared(doc, kind) == SelectSeq(doc, LAMBDA d : d.kind = kind)

WellFormed(doc, d) ==
  CASE d.kind = "lifecycle"   -> WellFormedLifecycle(d)
    [] d.kind = "profile"     -> WellFormedProfile(d)
    [] d.kind = "auction"     -> WellFormedAuction(d)
    [] d.kind = "composition" -> WellFormedComposition(d)
    [] d.kind = "policy"      -> WellFormedPolicy(doc, d)

\* compileDocument throws unless every name is used once in its kind and every
\* declaration is well formed.
Compiles(doc) ==
  /\ \A i, j \in DOMAIN doc : doc[i].kind = doc[j].kind /\ doc[i].name = doc[j].name => i = j
  /\ \A i \in DOMAIN doc : WellFormed(doc, doc[i])
=============================================================================
