------------------------------- MODULE Ports -------------------------------
(***************************************************************************)
(* guard_action of the Rust toolkit (GuardAction of the Go one): the same  *)
(* checks as guardAction, but an accepted move sets the commitment's state *)
(* and appends nothing to its history.  Several agents act on one world,   *)
(* which is kept a second time with the histories that the TypeScript      *)
(* guard would have written.                                               *)
(***************************************************************************)
EXTENDS CommerceModel

CONSTANTS
  Proposals,     \* the actions agents propose, without a version
  Initially,     \* per commitment: its first state
  Fulfillments

VARIABLES
  world,        \* the world as the port's verdicts return it
  appending,    \* history variable: the same world with a history entry per move
  plan          \* per agent: the commitment it read last and its version in either
                \* world, or None

portVars == <<world, appending, plan>>

-----------------------------------------------------------------------------

\* The next world: the target commitment, with its state advanced.
Advanced(w, a) == [w EXCEPT ![a.commitment].state = a.to]

\* An agent computes the version of a commitment, in either world.
ReadVersion(p, c) ==
  /\ plan' = [plan EXCEPT ![p] = [commitment |-> c,
                                  version    |-> CommitmentVersion(world[c]),
                                  reference  |-> CommitmentVersion(appending[c])]]
  /\ UNCHANGED <<world, appending>>

\* guard_action: known, not stale, a legal move, a clean resulting world.
GuardAction(a, expected) ==
  /\ a.commitment \in Commitments
  /\ ~VersionConflict(world[a.commitment], expected)
  /\ IsValidCommitmentTransition(world[a.commitment].state, a.to)
  /\ AuditClean(Advanced(world, a), Fulfillments)
  /\ world' = Advanced(world, a)
  /\ appending' = MoveIn(appending, a, 0)
  /\ UNCHANGED plan

ActOnVersion(a) ==
  /\ plan[a.actor] # None
  /\ plan[a.actor].commitment = a.commitment
  /\ GuardAction(a, plan[a.actor].version)

\* Worlds reach the toolkit deserialized, with or without a history; here without.
PortsInit ==
  /\ world = [c \in Commitments |-> [state |-> Initially[c], history |-> <<>>]]
  /\ appending = world
  /\ plan = [p \in Actors |-> None]

PortsNext ==
  \/ \E p \in Actors, c \in Commitments : ReadVersion(p, c)
  \/ \E a \in Proposals : ActOnVersion(a) \/ GuardAction(a, None)

PortsSpec == PortsInit /\ [][PortsNext]_portVars

-----------------------------------------------------------------------------
(* Properties.                                                             *)

\* Whether an agent's version is stale is decided alike by the ports, where only the
\* state can change a version, and by the guards that append to the history.
ConflictVerdictIdentical ==
  \A p \in Actors :
    plan[p] # None =>
      LET c == plan[p].commitment
      IN VersionConflict(world[c], plan[p].version)
           <=> VersionConflict(appending[c], plan[p].reference)
=============================================================================
