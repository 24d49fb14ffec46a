------------------------------ MODULE Workflow ------------------------------
(***************************************************************************)
(* The workflow compiler of warp-core and the builder that drives it.  The *)
(* builder asks a provider for a project, type-checks the answer and, when *)
(* the check fails, asks again with the errors, max_rounds times at most.  *)
(* A checked project is lowered to one block of code per node.             *)
(* A project is a sequence of nodes [type, name, config], a config a       *)
(* sequence of entries [key, value] with distinct keys (the parser refuses *)
(* a repeated key).                                                        *)
(***************************************************************************)
EXTENDS CommerceModel, SequencesExt

CONSTANTS
  Projects,    \* the projects the provider may answer with
  MaxRounds    \* AIBuilder::max_rounds

VARIABLES
  pass,      \* "asking", "checking", "lowering" or how it ended
  round,     \* rounds used up
  project,   \* the last answer, until a prompt carries it back to the provider
  node,      \* the node the pass is at
  declared,  \* the instances declared so far
  trigger,   \* the instance the keyword `trigger` stands for, or None
  verified,  \* a capacity-verifying node has been seen
  faults,    \* the errors collected
  blocks     \* the blocks emitted: what each binds, uses and takes its language from

workflowVars == <<pass, round, project, node, declared, trigger, verified, faults, blocks>>

-----------------------------------------------------------------------------
(* The built-in nodes and the values of a config.                          *)

Category ==
  [CartAbandoned |-> "triggers", OrderPlaced |-> "triggers", OccasionTrigger |-> "triggers",
   WhatsAppSend |-> "communication", DelayFor |-> "timing", DelayUntil |-> "timing",
   ACPGetCustomerProfile |-> "intelligence", ACPEvaluateStrategy |-> "intelligence",
   CustomerSegment |-> "intelligence", CampaignFanOut |-> "marketing",
   ABTestRoute |-> "marketing"]

RequiredInputs ==
  [CartAbandoned |-> {"min_value", "after"}, OrderPlaced |-> {"min_value"},
   OccasionTrigger |-> {"occasion", "days_before"}, WhatsAppSend |-> {"to", "template"},
   DelayFor |-> {"duration"}, DelayUntil |-> {"target_datetime"},
   ACPGetCustomerProfile |-> {"customer_id"}, ACPEvaluateStrategy |-> {"customer_id"},
   CustomerSegment |-> {"customer_ids", "criteria"},
   CampaignFanOut |-> {"audience", "recipients", "template_id"},
   ABTestRoute |-> {"customer_id", "experiment_id", "variant_a_weight"}]

IsKnown(n) == n.type \in DOMAIN Category
IsTrigger(n) == IsKnown(n) /\ Category[n.type] = "triggers"

\* Intent, Commitment, Fulfillment; 0 is off the chain.
ModelLevel(n) ==
  CASE n.type \in {"CartAbandoned", "OccasionTrigger"} -> 1
    [] n.type = "OrderPlaced" -> 2
    [] n.type \in {"WhatsAppSend", "DelayFor", "DelayUntil"} -> 3
    [] OTHER -> 0

RECURSIVE RefsOf(_), CodesOf(_), IsConversion(_)
RefsOf(v) ==
  CASE v.kind = "ref" -> {v.instance}
    [] v.kind = "object" -> UNION {RefsOf(v.entries[i].value) : i \in DOMAIN v.entries}
    [] OTHER -> {}

CodesOf(v) ==
  CASE v.kind = "currency" -> {v.code}
    [] v.kind = "object" -> UNION {CodesOf(v.entries[i].value) : i \in DOMAIN v.entries}
    [] OTHER -> {}

KeysIn(entries) == {entries[i].key : i \in DOMAIN entries}

IsConversion(entry) ==
  \/ entry.key \in {"convert", "conversion", "currency_conversion"}
  \/ /\ entry.value.kind = "object"
     /\ LET keys == KeysIn(entry.value.entries)
        IN \/ keys \cap {"from", "from_currency"} # {} /\ keys \cap {"to", "to_currency"} # {}
           \/ \E i \in DOMAIN entry.value.entries : IsConversion(entry.value.entries[i])

NoArg == [kind |-> "absent"]
Arg(n, k) ==
  IF k \in KeysIn(n.config)
  THEN n.config[CHOOSE i \in DOMAIN n.config : n.config[i].key = k].value
  ELSE NoArg

-----------------------------------------------------------------------------
(* check_types, one node at a time.                                        *)

\* Slip: a reference may name any instance of the project, declared above or not.
UnresolvedAnywhere(n, alias) ==
  {r \in UNION {RefsOf(n.config[i].value) : i \in DOMAIN n.config} :
     IF r = "trigger" THEN alias = None ELSE r \notin {project[i].name : i \in DOMAIN project}}

Unresolved(n, alias) ==
  {r \in UNION {RefsOf(n.config[i].value) : i \in DOMAIN n.config} :
     IF r = "trigger" THEN alias = None ELSE r \notin declared}

MixesCurrencies(n) ==
  /\ Cardinality(UNION {CodesOf(n.config[i].value) : i \in DOMAIN n.config}) > 1
  /\ ~\E i \in DOMAIN n.config : IsConversion(n.config[i])

FaultsOf(n, alias) ==
  { f \in {"unresolved", "missing input", "capacity", "mixed currencies"} :
      \/ f = "unresolved" /\ Unresolved(n, alias) # {}
      \/ f = "missing input" /\ ~(RequiredInputs[n.type] \subseteq KeysIn(n.config))
      \/ f = "capacity" /\ n.type = "OrderPlaced" /\ ~verified
      \/ f = "mixed currencies" /\ MixesCurrencies(n) }

CheckNode ==
  LET n == project[node]
      alias == IF trigger = None /\ IsTrigger(n) THEN n.name ELSE trigger
  IN /\ pass = "checking" /\ node <= Len(project)
     /\ trigger' = alias
     /\ faults' = faults \cup (IF n.name \in declared THEN {"duplicate name"} ELSE {})
                         \cup (IF IsKnown(n) THEN FaultsOf(n, alias) ELSE {"unknown type"})
     /\ verified' = (verified \/ n.type = "ACPGetCustomerProfile")
     /\ declared' = declared \cup {n.name}
     /\ node' = node + 1
     /\ UNCHANGED <<pass, round, project, blocks>>

\* The checks after the loop: stages and declared states never go back, and no later
\* order is worth more than the first.
Staged(p) == SelectSeq(p, LAMBDA n : ModelLevel(n) # 0)
StageRegresses(p) ==
  \E i, j \in DOMAIN Staged(p) : i < j /\ ModelLevel(Staged(p)[i]) > ModelLevel(Staged(p)[j])

FulfilsTooEarly(p) ==
  LET s == Staged(p)
      commits == {i \in DOMAIN s : ModelLevel(s[i]) = 2}
  IN commits # {} /\ \E i \in DOMAIN s : ModelLevel(s[i]) = 3 /\ \A c \in commits : i < c

Declares(n) ==
  IsKnown(n) /\ Arg(n, "state").kind = "text" /\ Arg(n, "state").text \in StateTypes
DeclaredStates(p) ==
  LET ns == SelectSeq(p, Declares) IN [i \in DOMAIN ns |-> Arg(ns[i], "state").text]

\* validate_commitment_transition of warp-core, a table of its own.
CoreTransitions ==
  { <<"Draft", "Proposed">>, <<"Draft", "Tendered">>, <<"Draft", "Cancelled">>,
    <<"Proposed", "Accepted">>, <<"Proposed", "Cancelled">>, <<"Proposed", "Modified">>,
    <<"Tendered", "Accepted">>, <<"Tendered", "Cancelled">> }
  \cup ({"Accepted"} \X {"Modified", "PartiallyFulfilled", "Active", "Cancelled", "Disputed"})
  \cup ({"Modified"} \X {"Accepted", "Cancelled"})
  \cup ({"PartiallyFulfilled"} \X {"Fulfilled", "Modified", "Cancelled"})
  \cup ({"Active"} \X {"Modified", "Cancelled", "Disputed"})
  \cup ({"Fulfilled"} \X {"Disputed", "Refunded"})
  \cup ({"Disputed"} \X {"Fulfilled", "Refunded", "Cancelled"})

StateRegresses(p) ==
  LET s == DeclaredStates(p) IN \E i \in 1..(Len(s) - 1) : <<s[i], s[i + 1]>> \notin CoreTransitions

FirstPrice(n) ==
  LET priced == {i \in DOMAIN n.config : n.config[i].value.kind = "currency"}
  IN IF priced = {} THEN 0
     ELSE n.config[CHOOSE i \in priced : \A j \in priced : i <= j].value.amount
ChildExceeds(p) ==
  LET orders == SelectSeq(p, LAMBDA n : n.type = "OrderPlaced")
  IN \E i \in 2..Len(orders) :
       FirstPrice(orders[1]) # 0 /\ FirstPrice(orders[i]) > FirstPrice(orders[1])

LateFaults(p) ==
  { f \in {"stage", "temporal order", "state", "tree"} :
      \/ f = "stage" /\ StageRegresses(p)
      \/ f = "temporal order" /\ FulfilsTooEarly(p)
      \/ f = "state" /\ StateRegresses(p)
      \/ f = "tree" /\ ChildExceeds(p) }

\* A failed round goes back to the provider with the errors, or to the merchant.
BudgetSpent == round + 1 = MaxRounds
AfterFault == IF BudgetSpent THEN "clarify" ELSE "asking"

FinishCheck ==
  LET all == faults \cup LateFaults(project)
  IN /\ pass = "checking" /\ node > Len(project)
     /\ faults' = all
     /\ pass' = IF all = {} THEN "lowering" ELSE AfterFault
     /\ project' = IF all = {} \/ BudgetSpent THEN project ELSE <<>>
     /\ trigger' = IF all = {} THEN trigger ELSE None
     /\ round' = round + 1
     /\ node' = 1 /\ declared' = {} /\ verified' = FALSE
     /\ UNCHANGED blocks

-----------------------------------------------------------------------------
(* generate, one node at a time.                                           *)

IsMoneyLiteral(v) == v.kind = "absent" \/ (v.kind = "currency" /\ v.code = "MAD")
IsSpanLiteral(v) == v.kind = "absent" \/ (v.kind = "duration" /\ v.unit \in {"minutes", "hours"})
IsText(v) == v.kind = "text"
IsTextOrRef(v) == v.kind \in {"text", "ref"}
IsSpoken(v) ==
  \/ v.kind \in {"absent", "ref"}
  \/ v.kind = "text" /\ v.text \in {"arabic", "french", "english", "darija"}
IsParams(v) ==
  \/ v.kind = "absent"
  \/ v.kind = "object" /\ \A i \in DOMAIN v.entries : IsTextOrRef(v.entries[i].value)

Lowers(n) ==
  \/ n.type = "CartAbandoned" /\ IsMoneyLiteral(Arg(n, "min_value")) /\ IsSpanLiteral(Arg(n, "after"))
  \/ n.type = "OrderPlaced" /\ IsMoneyLiteral(Arg(n, "min_value"))
  \/ /\ n.type = "WhatsAppSend" /\ Arg(n, "to").kind = "ref" /\ IsText(Arg(n, "template"))
     /\ IsSpoken(Arg(n, "lang")) /\ IsParams(Arg(n, "params"))
  \/ n.type = "DelayFor" /\ IsSpanLiteral(Arg(n, "duration"))
  \/ /\ n.type \in {"ACPGetCustomerProfile", "ACPEvaluateStrategy"}
     /\ IsTextOrRef(Arg(n, "customer_id"))

\* resolve_reference_var: `trigger` is the first trigger of the project.
Resolved(refs) == {IF r = "trigger" THEN trigger ELSE r : r \in refs}

\* The language is taken from the instance as written.
Block(n) ==
  [binds |-> n.name,
   uses |-> Resolved(UNION {RefsOf(Arg(n, k)) : k \in {"to", "params", "customer_id"}}),
   speaks |-> IF n.type = "WhatsAppSend" THEN RefsOf(Arg(n, "lang")) ELSE {}]

LowerNode ==
  /\ pass = "lowering" /\ node <= Len(project) /\ trigger # None
  /\ Lowers(project[node])
  /\ blocks' = Append(blocks, Block(project[node]))
  /\ node' = node + 1
  /\ UNCHANGED <<pass, round, project, declared, trigger, verified, faults>>

\* A project without a trigger, or with a node or a config outside this version's scope.
LowerFails ==
  /\ pass = "lowering"
  /\ trigger = None \/ (node <= Len(project) /\ ~Lowers(project[node]))
  /\ pass' = "unsupported"
  /\ UNCHANGED <<round, project, node, declared, trigger, verified, faults, blocks>>

FinishLowering ==
  /\ pass = "lowering" /\ node > Len(project) /\ trigger # None
  /\ pass' = "generated"
  /\ UNCHANGED <<round, project, node, declared, trigger, verified, faults, blocks>>

-----------------------------------------------------------------------------
(* The provider's side of a round.                                         *)

Answer(p) ==
  /\ pass = "asking"
  /\ pass' = "checking" /\ project' = p /\ node' = 1
  /\ declared' = {} /\ trigger' = None /\ verified' = FALSE /\ faults' = {}
  /\ UNCHANGED <<round, blocks>>

\* The answer does not lex or parse.
AnswerGarbled ==
  /\ pass = "asking"
  /\ pass' = AfterFault /\ round' = round + 1 /\ faults' = {"parse"}
  /\ UNCHANGED <<project, node, declared, trigger, verified, blocks>>

\* A network error, a status, an answer without text: build returns the error at once.
ProviderFails ==
  /\ pass = "asking" /\ pass' = "failed"
  /\ UNCHANGED <<round, project, node, declared, trigger, verified, faults, blocks>>

WorkflowInit ==
  /\ pass = "asking" /\ round = 0 /\ project = <<>> /\ node = 1 /\ declared = {}
  /\ trigger = None /\ verified = FALSE /\ faults = {} /\ blocks = <<>>

Compiling == CheckNode \/ FinishCheck \/ LowerNode \/ LowerFails \/ FinishLowering

WorkflowNext == Compiling \/ (\E p \in Projects : Answer(p)) \/ AnswerGarbled \/ ProviderFails

-----------------------------------------------------------------------------
(* Properties.                                                             *)

\* What two passes that share no table agree on: in a project that was generated, every
\* variable a block uses was bound by an earlier block and only once (a language taken
\* from `trigger` is the exception: language_field emits the keyword itself), an order is
\* placed behind a capacity check, no node is staged below any earlier one, and the
\* states the nodes declare are a path of the commerce model.
GeneratedWorkflowIsSound ==
  pass = "generated" =>
    /\ IsInjective([i \in DOMAIN blocks |-> blocks[i].binds])
    /\ \A i \in DOMAIN blocks : \A u \in blocks[i].uses \cup (blocks[i].speaks \ {"trigger"}) :
         \E j \in 1..(i - 1) : blocks[j].binds = u
    /\ \A i \in DOMAIN project : project[i].type = "OrderPlaced" =>
         \E j \in 1..(i - 1) : project[j].type = "ACPGetCustomerProfile"
    /\ \A i, j \in DOMAIN project : i < j /\ ModelLevel(project[j]) # 0 =>
         ModelLevel(project[i]) <= ModelLevel(project[j])
    /\ LET s == DeclaredStates(project)
       IN \A i \in 1..(Len(s) - 1) : s[i + 1] \in CommitmentTransitions[s[i]]
    /\ round <= MaxRounds
=============================================================================
