------------------------------- MODULE Agents -------------------------------
(***************************************************************************)
(* createMultiAgentSession: several named agents over one session.  An     *)
(* agent reads a commitment and its version, and acts on it any time       *)
(* later, perhaps after others have acted, perhaps twice.  Every action    *)
(* the session applies is logged with the agent who proposed it.           *)
(***************************************************************************)
EXTENDS Session

VARIABLES
  plan,    \* per agent: the commitment and version it read last, or None
  log,     \* the accepted actions in order: [actor, commitment, to]
  moves    \* history variable: id -> how often the commitment has moved

agentsVars == <<vars, plan, log, moves>>

-----------------------------------------------------------------------------

\* An agent calls commitmentVersion() on a commitment of the shared world.
Read(p, c) ==
  /\ plan' = [plan EXCEPT ![p] = [commitment |-> c, version |-> CommitmentVersion(world[c]),
                                  seen |-> moves[c]]]
  /\ UNCHANGED <<vars, log, moves>>

\* Slip: the log takes replays as well.
LogVerdictAlways(a) ==
  log' = Append(log, [actor |-> a.actor, commitment |-> a.commitment, to |-> a.to.type])

\* The verdict is ok: log the action, unless it was a replay, which applied nothing.
LogVerdict(a) ==
  log' = IF IsReplay(a) THEN log
         ELSE Append(log, [actor |-> a.actor, commitment |-> a.commitment, to |-> a.to.type])

CountMove(a) == moves' = [moves EXCEPT ![a.commitment] = @ + 1]

\* propose(): the session's verdict, and what the log makes of it.
ProposeLogged(a, expected, at) ==
  \/ Replay(a) /\ LogVerdict(a) /\ UNCHANGED moves
  \/ RefundInPart(a, expected) /\ LogVerdict(a) /\ UNCHANGED moves
  \/ RefundInFull(a, expected, at) /\ LogVerdict(a) /\ CountMove(a)
  \/ Advance(a, expected, at) /\ LogVerdict(a) /\ CountMove(a)
  \/ Conflict(a, expected) /\ UNCHANGED <<log, moves>>
  \/ Reject(a, expected, at) /\ UNCHANGED <<log, moves>>
  \/ /\ RefundThrows(a, expected, at)
     /\ IF SettlesInFull(a) THEN CountMove(a) ELSE UNCHANGED moves
     /\ UNCHANGED log

\* The agent passes the version it read, however long ago that was.
ActOnPlan(a, at) ==
  /\ plan[a.actor] # None
  /\ plan[a.actor].commitment = a.commitment
  /\ ProposeLogged(a, plan[a.actor].version, at)
  /\ UNCHANGED plan

\* The agent passes no version.
ActFreely(a, at) == ProposeLogged(a, None, at) /\ UNCHANGED plan

AgentsInit ==
  /\ Init
  /\ plan = [p \in Actors |-> None]
  /\ log = <<>>
  /\ moves = [c \in Commitments |-> 0]

AgentsNext ==
  \/ \E p \in Actors, c \in Commitments : Read(p, c)
  \/ \E a \in Requests, at \in Times :
       BelowBound(a) /\ (ActOnPlan(a, at) \/ ActFreely(a, at))

AgentsSpec == AgentsInit /\ [][AgentsNext]_agentsVars

-----------------------------------------------------------------------------
(* Properties.                                                             *)

\* Optimistic concurrency: an action on a plan moves its commitment only if the
\* commitment has not moved since the agent read it, not even away and back again.
\* checkVersion compares two strings; that equal strings mean no move in between rests
\* on every move making the history longer.
NoStaleMove ==
  [][\A a \in Requests, at \in Times :
       ActOnPlan(a, at) /\ world' # world => plan[a.actor].seen = moves[a.commitment]]_agentsVars

\* A commitment in whose tree the tally holds one currency only: propose() never
\* throws on it.
OneCurrency(c) ==
  \A d, e \in Commitments :
    (TreeRoot[d] = TreeRoot[c] /\ TreeRoot[e] = TreeRoot[c] /\ NoMoney \notin {Committed[d], Committed[e]})
      => Committed[d].currency = Committed[e].currency

\* The log tells who moved a commitment how, and its history tells the same: retries,
\* conflicts, rejections and the moves of other commitments in between leave no entry,
\* and no move misses one.  Only refunds differ, which the log has one by one and
\* the history once, by the agent whose refund was the last.
LogTellsMoves ==
  \A c \in Commitments :
    LET start   == Len(InitialWorld[c].history)
        history == world[c].history
        last    == history[Len(history)]
        moved   == {i \in (start + 1)..Len(history) : history[i].to.type # "Refunded"}
        logged  == {i \in DOMAIN log : log[i].commitment = c /\ log[i].to # "Refunded"}
    IN OneCurrency(c) =>
         /\ TellTheSame(moved, [i \in moved |-> <<history[i].actor, history[i].to.type>>],
                        logged, [i \in logged |-> <<log[i].actor, log[i].to>>])
         /\ Len(history) > start /\ last.to.type = "Refunded" =>
              \E i \in DOMAIN log :
                /\ log[i] = [actor |-> last.actor, commitment |-> c, to |-> "Refunded"]
                /\ \A j \in (i + 1)..Len(log) : log[j].commitment # c
=============================================================================
