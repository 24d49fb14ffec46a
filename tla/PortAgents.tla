----------------------------- MODULE PortAgents -----------------------------
(***************************************************************************)
(* The multi-agent session of every toolkit, in lockstep: each wraps its   *)
(* own session, logs who did what and, when an action is refused, names    *)
(* the actor who tipped the shared world over and the actors who acted     *)
(* before.                                                                 *)
(***************************************************************************)
EXTENDS Toolkits

CONSTANT MaxLog   \* bound: no further proposal once so many are logged

VARIABLE records   \* per toolkit: [log, blame], the log and the latest attribution

portAgentsVars == <<toolkitVars, records>>

-----------------------------------------------------------------------------
(* propose(): what each wrapper makes of its session's verdict.            *)

AgentAction(a) == [actor |-> a.actor, commitment |-> a.commitment, to |-> a.to.type]
Nobody == [log |-> <<>>, blame |-> None]

\* An exception of the session passes through: nothing is logged, nothing attributed.
TsAttributed(r, verdict, a) ==
  LET others == {r.log[i].actor : i \in DOMAIN r.log} \ {a.actor}
  IN CASE verdict = "accepted" -> [log |-> Append(r.log, AgentAction(a)), blame |-> None]
       [] verdict = "replay"   -> [r EXCEPT !.blame = None]
       [] verdict = "rejected" -> [r EXCEPT !.blame = [actor |-> a.actor, after |-> others]]
       [] OTHER -> r

RustAttributed(r, verdict, a) ==
  LET priorActors == {e.actor : e \in {r.log[i] : i \in DOMAIN r.log}}
  IN IF verdict \in {"accepted", "replay"}
     THEN [log |-> IF verdict = "replay" THEN r.log ELSE Append(r.log, AgentAction(a)), blame |-> None]
     ELSE [r EXCEPT !.blame = [actor |-> a.actor, after |-> {p \in priorActors : p # a.actor}]]

GoAttributed(r, verdict, a) ==
  LET before(p) == \E i \in DOMAIN r.log : r.log[i].actor = p
      logged == IF verdict = "replay" THEN <<>> ELSE <<AgentAction(a)>>
  IN IF verdict = "rejected"
     THEN [r EXCEPT !.blame = [actor |-> a.actor, after |-> {p \in Actors \ {a.actor} : before(p)}]]
     ELSE [log |-> r.log \o logged, blame |-> None]

PyAttributed(r, verdict, a) ==
  LET seen == {r.log[i].actor : i \in DOMAIN r.log}
      ok == [r EXCEPT !.blame = None]
  IN CASE verdict = "raised" -> r
       [] verdict = "replay" -> ok
       [] verdict = "accepted" -> [ok EXCEPT !.log = Append(@, AgentAction(a))]
       [] OTHER -> [r EXCEPT !.blame = [actor |-> a.actor, after |-> seen \ {a.actor}]]

ProposeAttributed(a, at) ==
  /\ Len(records.ts.log) < MaxLog
  /\ ProposeToAll(a, at)
  /\ records' = [ts     |-> TsAttributed(records.ts, answer', a),
                 rust   |-> RustAttributed(records.rust, rust'.verdict, a),
                 golang |-> GoAttributed(records.golang, golang'.verdict, a),
                 python |-> PyAttributed(records.python, python'.verdict, a)]

PortAgentsInit ==
  ToolkitsInit /\ records = [port \in {"ts", "rust", "golang", "python"} |-> Nobody]

\* The host's clock runs forward: of an earlier reading only the guards that keep
\* histories would know.
PortAgentsNext ==
  \E a \in Requests, at \in Times : BelowBound(a) /\ OnTime(a, at) /\ ProposeAttributed(a, at)

PortAgentsSpec == PortAgentsInit /\ [][PortAgentsNext]_portAgentsVars

-----------------------------------------------------------------------------
(* Properties.                                                             *)

\* One sequence of proposals has one verdict, one log and one culprit in every language,
\* and the log names whom the attribution says: a refusal is laid at the door of the actor
\* who was refused, after exactly the other actors who have an accepted action.
PortsAgree ==
  /\ ToolkitsAgree
  /\ TwoWayLinks /\ UniformTrees /\ AgreedDeliveries =>
       /\ \A port \in DOMAIN records : records[port] = records.ts
       /\ LET blame == records.ts.blame
          IN blame # None => blame.actor \notin blame.after
=============================================================================
