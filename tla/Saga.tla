-------------------------------- MODULE Saga --------------------------------
(***************************************************************************)
(* Compensation of a flow: a host keeps the forward steps a session has    *)
(* taken, plans their reversal against one snapshot of the world           *)
(* (planCompensation) and proposes the plan to a session, step by step     *)
(* (validateCompensation): to the session the flow ran in                  *)
(* (compensateSession) or to a new one (compensate).  The call is          *)
(* synchronous, so nothing else is proposed while it unwinds.  PortSagas    *)
(* runs it, beside the ports' compensations.                               *)
(***************************************************************************)
EXTENDS Session, SequencesExt

CONSTANTS
  CompensateWith,  \* per request: the override its forward step carries, or None
  MaxForward,      \* bound: no more forward steps than this
  MaxUnwinds,      \* bound: no more compensations than this
  NoAction

ASSUME OverridesAssumption == CompensateWith \in [Requests -> States \cup {None}]

VARIABLES
  forward,  \* the forward steps, oldest first
  phase,    \* "forward", or where the last compensation is: unwinding, unwound, failed
  plan,     \* its plan: [forward, action] records, newest forward step first
  step,     \* the index of the plan's step whose turn it is
  report,   \* the counts it returns
  unwinds,  \* history variable: how many compensations were started ...
  afresh    \* ... and whether one of them was given a session of its own

sagaVars == <<vars, forward, phase, plan, step, report, unwinds, afresh>>

-----------------------------------------------------------------------------
(* Planning.                                                               *)

ForwardStep(r) ==
  [commitment |-> r.commitment, to |-> r.to, actor |-> r.actor, override |-> CompensateWith[r]]

Legal(f, t) == t \in CommitmentTransitions[world[f.commitment].state.type]

CompensationKeys == {<<"comp", c, t>> : c \in Ids, t \in StateTypes}

\* The keys of compensations are their own: no caller gives its action one of them.
CompensationKeysApart == Keys \cap CompensationKeys = {} /\ None \notin CompensationKeys

\* NoAction is the absence of an action.
ASSUME NoActionAssumption == NoAction \notin Actions(CompensationKeys)

Compensating(f, to) ==
  [commitment |-> f.commitment, to |-> to, actor |-> f.actor,
   key |-> <<"comp", f.commitment, to.type>>]

\* Slip: what is not delivered is cancelled from wherever the commitment is now.
DefaultCompensationBlind(f) ==
  CASE f.to.type = "Fulfilled" ->
         IF Legal(f, "Refunded") /\ Committed[f.commitment] # NoMoney
         THEN Compensating(f, [type |-> "Refunded", amount |-> Committed[f.commitment]])
         ELSE NoAction
    [] f.to.type \in {"Accepted", "Active", "Modified", "PartiallyFulfilled"} ->
         Compensating(f, Plain("Cancelled"))
    [] OTHER -> NoAction

\* What was delivered is refunded, what was only agreed is cancelled, where legal.
DefaultCompensation(f) ==
  CASE f.to.type = "Fulfilled" ->
         IF Legal(f, "Refunded") /\ Committed[f.commitment] # NoMoney
         THEN Compensating(f, [type |-> "Refunded", amount |-> Committed[f.commitment]])
         ELSE NoAction
    [] f.to.type \in {"Accepted", "Active", "Modified", "PartiallyFulfilled"} ->
         IF Legal(f, "Cancelled") THEN Compensating(f, Plain("Cancelled")) ELSE NoAction
    [] OTHER -> NoAction

CompensationOf(f) ==
  IF f.commitment \notin Commitments THEN NoAction
  ELSE IF f.override = None THEN DefaultCompensation(f)
  ELSE IF Legal(f, f.override.type) THEN Compensating(f, f.override) ELSE NoAction

PlanCompensation(steps) ==
  LET unwound == Reverse(steps)
  IN [i \in DOMAIN unwound |-> [forward |-> unwound[i], action |-> CompensationOf(unwound[i])]]

-----------------------------------------------------------------------------
(* The forward flow, and the unwinding.                                    *)

\* The host proposes, and keeps what drove its commitment to the proposed state.
Forward(a, at) ==
  /\ phase # "unwinding" /\ Len(forward) < MaxForward
  /\ Propose(a, None, at)
  /\ forward' = IF world' # world THEN Append(forward, ForwardStep(a)) ELSE forward
  /\ phase' = "forward" /\ plan' = <<>> /\ step' = 1 /\ report' = [applied |-> 0, skipped |-> 0]
  /\ UNCHANGED <<unwinds, afresh>>

\* planCompensation against the world as it is now, by either entry point.
Start ==
  /\ phase # "unwinding" /\ forward # <<>> /\ unwinds < MaxUnwinds
  /\ phase' = "unwinding"
  /\ plan' = PlanCompensation(forward)
  /\ step' = 1
  /\ report' = [applied |-> 0, skipped |-> 0]
  /\ unwinds' = unwinds + 1
  /\ UNCHANGED <<world, paid, forward>>

CompensateSession == Start /\ UNCHANGED <<ledger, treeLedger, applied, afresh>>

\* compensate() starts a session of its own.  It is documented for worlds whose states
\* reflect every prior effect: no commitment was refunded in part.
StatesTellAll == \A c \in Commitments : ledger[c] > 0 => world[c].state.type = "Refunded"

Compensate ==
  /\ StatesTellAll
  /\ Start
  /\ ledger' = [c \in Commitments |-> 0]
  /\ treeLedger' = [c \in Commitments |-> NoMoney]
  /\ applied' = {}
  /\ afresh' = TRUE

Unwinding == phase = "unwinding" /\ step \in DOMAIN plan

SkipStep ==
  /\ Unwinding /\ plan[step].action = NoAction
  /\ report' = [report EXCEPT !.skipped = @ + 1]
  /\ step' = step + 1
  /\ UNCHANGED <<vars, phase>>

\* Slip: a rejected compensation is passed over and the next one tried.
VerdictCounted(a, at) ==
  /\ report' = [report EXCEPT !.applied = @ + 1]
  /\ step' = step + 1
  /\ UNCHANGED phase

\* A replay counts as applied; a rejection (or an exception) ends the loop there.
Verdict(a, at) ==
  IF IsReplay(a) \/ Accepted(a, None, at)
  THEN /\ report' = [report EXCEPT !.applied = @ + 1]
       /\ step' = step + 1
       /\ UNCHANGED phase
  ELSE phase' = "failed" /\ UNCHANGED <<report, step>>

RunStep(at) ==
  /\ Unwinding /\ plan[step].action # NoAction
  /\ Propose(plan[step].action, None, at)
  /\ Verdict(plan[step].action, at)

Finish ==
  /\ phase = "unwinding" /\ step > Len(plan)
  /\ phase' = "unwound"
  /\ UNCHANGED <<vars, report, step>>

\* Slip: the loop does not get past a step with nothing to reverse.
ValidateCompensationStuck(at) ==
  /\ RunStep(at) \/ Finish
  /\ UNCHANGED <<forward, plan, unwinds, afresh>>

ValidateCompensation(at) ==
  /\ SkipStep \/ RunStep(at) \/ Finish
  /\ UNCHANGED <<forward, plan, unwinds, afresh>>

SagaInit ==
  /\ Init
  /\ forward = <<>> /\ phase = "forward" /\ plan = <<>> /\ step = 1
  /\ report = [applied |-> 0, skipped |-> 0]
  /\ unwinds = 0 /\ afresh = FALSE

-----------------------------------------------------------------------------
(* Properties.                                                             *)

\* A commitment's own forward steps, when none of them overrides the default.
ByDefault(c) == \A i \in DOMAIN forward : forward[i].commitment = c => forward[i].override = None

\* When the unwinding reports success, every commitment the flow drove to an agreed or
\* delivered state is cancelled or refunded: no forward step is left standing.
UnwoundMeansReversed ==
  phase = "unwound" =>
    \A i \in DOMAIN forward :
      LET c == forward[i].commitment
      IN /\ forward[i].to.type \in {"Accepted", "Active", "Modified", "PartiallyFulfilled", "Fulfilled"}
         /\ Committed[c] # NoMoney /\ ByDefault(c)
         => world[c].state.type \in {"Cancelled", "Refunded"}

\* Every price fits in its tree: the root's children add up to it, and no member is
\* worth more than the root.
PricesFit ==
  \A c \in Commitments :
    LET root == TreeRoot[c]
    IN IsInTree(c) /\ Committed[c] # NoMoney =>
         /\ TreeConsistent(root, ChildrenByPointer(root))
         /\ ~ExceedsCommitted(root, Committed[c].amount, Committed[c].currency)

\* A compensation is only stopped by what happened to the same commitment or tree: an
\* earlier step of the same plan moved the commitment, refunds had been paid on its
\* tree, the clock reads earlier than the commitment's last stamp, or the step carries an
\* override.  (The plan is made from one snapshot, so a default step was legal when it was
\* planned; a move of another commitment never makes the audit refuse it.)
FailsOnlyWhenOvertaken ==
  phase = "failed" =>
    LET f == plan[step].forward
    IN \/ f.override # None
       \/ \E j \in 1..(step - 1) : plan[j].action # NoAction /\ plan[j].forward.commitment = f.commitment
       \/ \E c \in TreeOf(TreeRoot[f.commitment]), m \in Currencies : paid[c][m] > 0
       \/ \E at \in Times : at < LastAt(world[f.commitment])

\* Forward refunds and reversals together stay within what the tree committed, as long
\* as every compensation ran in the session of the flow.
SagaPaysWithinTree == ~afresh => PaidWithinTree

\* A compensation that was started ends, with success or at the step that stopped it.
UnwindingEnds == phase = "unwinding" ~> phase \in {"unwound", "failed"}
=============================================================================
