----------------------------- MODULE PortSagas ------------------------------
(***************************************************************************)
(* Compensation in every toolkit.  The flow runs in the four sessions in   *)
(* lockstep; when it is unwound, each toolkit plans from its own world and *)
(* runs its plan through its own session, in one call, while the           *)
(* TypeScript one takes its steps.  What they did is compared when it ends. *)
(***************************************************************************)
EXTENDS Saga, Toolkits

VARIABLES
  undone,   \* per port: the plan and the outcome of its compensation, or None
  readings  \* what the clock reads at each step of a compensation, the same for all

portSagasVars == <<sagaVars, rust, golang, python, answer, undone, readings>>

-----------------------------------------------------------------------------
(* Rust.                                                                   *)

RustAction(f, to) ==
  [commitment |-> f.commitment, to |-> to, actor |-> f.actor, key |-> <<"comp", f.commitment, to.type>>]

\* committed_money, valid_transitions, default_compensation.
RustDefaultCompensation(w, f) ==
  LET legal == {t \in StateTypes : RustIsValidTransition(w[f.commitment].state.type, t)}
      effect == f.to.type
  IN CASE effect = "Fulfilled" /\ "Refunded" \in legal /\ Committed[f.commitment] # NoMoney ->
            RustAction(f, [type |-> "Refunded", amount |-> Committed[f.commitment]])
       [] effect \in {"Accepted", "Active", "Modified", "PartiallyFulfilled"} /\ "Cancelled" \in legal ->
            RustAction(f, Plain("Cancelled"))
       [] OTHER -> NoAction

RustPlanCompensation(w, steps) ==
  [i \in DOMAIN steps |->
     LET f == Reverse(steps)[i]
     IN IF f.commitment \notin DOMAIN w THEN NoAction
        ELSE IF f.override = None THEN RustDefaultCompensation(w, f)
        ELSE IF RustIsValidTransition(w[f.commitment].state.type, f.override.type)
        THEN RustAction(f, f.override) ELSE NoAction]

\* What a loop over the plan leaves: the session, the two counts, and where it stopped.
Untouched(s) == [session |-> s, applied |-> 0, skipped |-> 0, failedAt |-> 0]

RustValidateCompensation(s, actions) ==
  LET after[i \in 0..Len(actions)] ==
        IF i = 0 THEN Untouched(s)
        ELSE LET before == after[i - 1]
                 next == RustPropose(before.session, Fulfillments, actions[i])
             IN IF before.failedAt # 0 THEN before
                ELSE IF actions[i] = NoAction THEN [before EXCEPT !.skipped = @ + 1]
                ELSE IF next.verdict = "rejected" THEN [before EXCEPT !.failedAt = i]
                ELSE [before EXCEPT !.applied = @ + 1, !.session = next]
  IN after[Len(actions)]

\* compensate_session, and compensate with a session of its own.
RustCompensate(s, steps, own) ==
  LET actions == RustPlanCompensation(s.world, steps)
  IN [actions |-> actions,
      outcome |-> RustValidateCompensation(IF own THEN RustSession(s.world) ELSE s, actions)]

-----------------------------------------------------------------------------
(* Go.                                                                     *)

GoDefaultCompensation(w, f) ==
  LET from == w[f.commitment].state.type
      refund == [type |-> "Refunded", amount |-> Committed[f.commitment]]
      undo(to) == [commitment |-> f.commitment, to |-> to, actor |-> f.actor,
                   key |-> <<"comp", f.commitment, to.type>>]
  IN IF f.to.type = "Fulfilled"
     THEN IF ~GoAllows(from, "Refunded") \/ Committed[f.commitment] = NoMoney THEN NoAction ELSE undo(refund)
     ELSE IF f.to.type \in {"Accepted", "Active", "Modified", "PartiallyFulfilled"}
     THEN IF GoAllows(from, "Cancelled") THEN undo(Plain("Cancelled")) ELSE NoAction
     ELSE NoAction

GoPlanCompensation(w, steps) ==
  LET n == Len(steps)
      planned(f) ==
        CASE f.commitment \notin DOMAIN w -> NoAction
          [] f.commitment \in DOMAIN w /\ f.override = None -> GoDefaultCompensation(w, f)
          [] OTHER -> IF ~GoAllows(w[f.commitment].state.type, f.override.type) THEN NoAction
                      ELSE [commitment |-> f.commitment, to |-> f.override, actor |-> f.actor,
                            key |-> <<"comp", f.commitment, f.override.type>>]
  IN [i \in 1..n |-> planned(steps[n + 1 - i])]

GoValidateCompensation(s, actions) ==
  LET loop[i \in 0..Len(actions)] ==
        IF i = 0 THEN Untouched(s)
        ELSE LET r == loop[i - 1]
                 verdict == GoPropose(r.session, Fulfillments, actions[i])
             IN CASE r.failedAt # 0 -> r
                  [] r.failedAt = 0 /\ actions[i] = NoAction -> [r EXCEPT !.skipped = @ + 1]
                  [] r.failedAt = 0 /\ actions[i] # NoAction /\ verdict.verdict = "rejected" ->
                       [r EXCEPT !.failedAt = i]
                  [] OTHER -> [r EXCEPT !.session = verdict, !.applied = @ + 1]
  IN loop[Len(actions)]

GoCompensate(s, steps, own) ==
  LET actions == GoPlanCompensation(s.world, steps)
  IN [actions |-> actions,
      outcome |-> GoValidateCompensation(IF own THEN GoSession(s.world) ELSE s, actions)]

-----------------------------------------------------------------------------
(* Python.                                                                 *)

\* Slip: what was only agreed is cancelled from wherever the commitment is now.
PyDefaultCompensationBlind(w, f) ==
  IF f.to.type = "Fulfilled" THEN NoAction
  ELSE [commitment |-> f.commitment, to |-> Plain("Cancelled"), actor |-> f.actor,
        key |-> <<"comp", f.commitment, "Cancelled">>]

PyDefaultCompensation(w, f) ==
  LET legal(t) == PyIsValidCommitmentTransition(w[f.commitment].state, Plain(t))
      action(to) == [commitment |-> f.commitment, to |-> to, actor |-> f.actor,
                     key |-> <<"comp", f.commitment, to.type>>]
      committed == Committed[f.commitment]
      agreed == f.to.type \in {"Accepted", "Active", "Modified", "PartiallyFulfilled"}
  IN IF f.to.type = "Fulfilled" /\ legal("Refunded") /\ committed # NoMoney
     THEN action([type |-> "Refunded", amount |-> committed])
     ELSE IF agreed /\ legal("Cancelled") THEN action(Plain("Cancelled"))
     ELSE NoAction

PyPlanCompensation(w, steps) ==
  LET from(i) == steps[Len(steps) - i + 1]
      explicit(f) == [commitment |-> f.commitment, to |-> f.override, actor |-> f.actor,
                      key |-> <<"comp", f.commitment, f.override.type>>]
  IN [i \in DOMAIN steps |->
        IF from(i).commitment \notin DOMAIN w THEN NoAction
        ELSE IF from(i).override = None THEN PyDefaultCompensation(w, from(i))
        ELSE IF PyIsValidCommitmentTransition(w[from(i).commitment].state, from(i).override)
        THEN explicit(from(i)) ELSE NoAction]

\* An exception of the session ends the call like a refusal, without a result.
PyValidateCompensation(s, actions, times) ==
  LET result[i \in 0..Len(actions)] ==
        IF i = 0 THEN Untouched(s)
        ELSE LET r == result[i - 1]
                 verdict == PyPropose(r.session, Fulfillments, actions[i], times[i])
             IN IF r.failedAt > 0 THEN r
                ELSE IF actions[i] = NoAction THEN [r EXCEPT !.skipped = @ + 1]
                ELSE IF verdict.verdict \in {"accepted", "replay"}
                THEN [r EXCEPT !.session = verdict, !.applied = @ + 1]
                ELSE [r EXCEPT !.failedAt = i]
  IN result[Len(actions)]

PyCompensate(s, steps, own, times) ==
  LET actions == PyPlanCompensation(s.world, steps)
  IN [actions |-> actions,
      outcome |-> PyValidateCompensation(IF own THEN PySession(s.world) ELSE s, actions, times)]

-----------------------------------------------------------------------------
(* The four together.                                                      *)

ForwardAll(a, at) ==
  /\ Forward(a, at) /\ PortsPropose(a, at)
  /\ undone' = None /\ readings' = <<>>

CompensateAll(own) ==
  /\ IF own THEN Compensate ELSE CompensateSession
  /\ readings' \in [1..Len(forward) -> Times]
  /\ undone' = [rust   |-> RustCompensate(rust, forward, own),
                golang |-> GoCompensate(golang, forward, own),
                python |-> PyCompensate(python, forward, own, readings')]
  /\ rust' = undone'.rust.outcome.session
  /\ golang' = undone'.golang.outcome.session
  /\ python' = undone'.python.outcome.session
  /\ UNCHANGED answer

\* A turn of the TypeScript loop; a step that proposes reads the clock.
Unwind(at) ==
  /\ Unwinding => at = readings[step]
  /\ ValidateCompensation(at)
  /\ UNCHANGED <<rust, golang, python, answer, undone, readings>>

PortSagasInit == SagaInit /\ ToolkitsInit /\ undone = None /\ readings = <<>>

PortSagasNext ==
  \/ \E a \in Requests, at \in Times : BelowBound(a) /\ ForwardAll(a, at)
  \/ \E own \in BOOLEAN : CompensateAll(own)
  \/ \E at \in Times : Unwind(at)

\* The loop of validateCompensation is synchronous: once entered it keeps running.
PortSagasSpec ==
  PortSagasInit /\ [][PortSagasNext]_portSagasVars
  /\ WF_portSagasVars(\E at \in Times : Unwind(at))

\* The same on a clock that runs forward: of an earlier reading only the toolkits that
\* keep histories would know.
SteadySagasNext ==
  \/ \E a \in Requests, at \in Times : BelowBound(a) /\ OnTime(a, at) /\ ForwardAll(a, at)
  \/ \E own \in BOOLEAN : CompensateAll(own)
  \/ \E at \in Times :
       /\ Unwind(at)
       /\ Unwinding /\ plan[step].action # NoAction => OnTime(plan[step].action, at)

SteadySagasSpec == PortSagasInit /\ [][SteadySagasNext]_portSagasVars

-----------------------------------------------------------------------------
(* Properties.                                                             *)

\* A flow is unwound the same way in every language: the same actions in the same order,
\* skipped and applied alike, stopped at the same step, and the sessions left with the same
\* states, ledgers and keys - after retries, partial refunds on several levels of a tree,
\* overrides, and a second compensation of what was compensated already.
PortsUnwindAlike ==
  undone # None /\ phase \in {"unwound", "failed"} /\ TwoWayLinks /\ UniformTrees /\ AgreedDeliveries =>
    \A port \in DOMAIN undone :
      LET outcome == undone[port].outcome
      IN /\ undone[port].actions = [i \in DOMAIN plan |-> plan[i].action]
         /\ outcome.applied = report.applied /\ outcome.skipped = report.skipped
         /\ outcome.failedAt = IF phase = "failed" THEN step ELSE 0
         /\ \A c \in Commitments : outcome.session.world[c].state = world[c].state
         /\ outcome.session.ledger = ledger /\ outcome.session.tree = treeLedger
         /\ Cardinality(outcome.session.applied) = Cardinality(applied)
=============================================================================
