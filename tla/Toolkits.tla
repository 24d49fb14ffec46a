------------------------------ MODULE Toolkits ------------------------------
(***************************************************************************)
(* The four toolkits in lockstep: every proposal made to the TypeScript    *)
(* session is made to the Rust, Go and Python ones too, over one world     *)
(* that was deserialized with its histories.  No proposal names a version: *)
(* what a version is worth without histories is the subject of Ports.      *)
(***************************************************************************)
EXTENDS Session, RustToolkit, GoToolkit, PythonToolkit

VARIABLES
  rust, golang, python,   \* the ports' sessions
  answer                  \* the verdict of the TypeScript session

toolkitVars == <<vars, rust, golang, python, answer>>

ASSUME DeliveriesAssumption ==
  \A x \in DOMAIN Fulfillments : Fulfillments[x].startedAt \in Nat \cup {None}

-----------------------------------------------------------------------------

\* The clock reads no earlier than the last stamp of the commitment.
OnTime(a, at) == Known(a) => at >= LastAt(world[a.commitment])

\* The ports' own propose() on the same action, and the verdict they are held to.
PortsPropose(a, at) ==
  /\ answer' = IF IsReplay(a) THEN "replay"
               ELSE IF Accepted(a, None, at) THEN "accepted"
               ELSE IF Rejected(a, None, at) THEN "rejected" ELSE "raised"
  /\ rust' = RustPropose(rust, Fulfillments, a)
  /\ golang' = GoPropose(golang, Fulfillments, a)
  /\ python' = PyPropose(python, Fulfillments, a, at)

ProposeToAll(a, at) == Propose(a, None, at) /\ PortsPropose(a, at)

ToolkitsInit ==
  /\ Init
  /\ rust = RustSession(InitialWorld)
  /\ golang = GoSession(InitialWorld)
  /\ python = PySession(InitialWorld)
  /\ answer = "none"

-----------------------------------------------------------------------------
(* Properties.                                                             *)

\* Parents and children name each other, and who lists children has one in the world: the
\* trees the toolkits read alike.  A link in one direction only is read from the parent by
\* two of them and from the child by the others; of a list that names nobody in the world
\* two say that it does not add up and the others that there is nothing to add.
TwoWayLinks ==
  \A r \in Commitments :
    /\ Children[r] \cap Commitments = ChildrenByPointer(r)
    /\ Children[r] # {} => ChildrenByPointer(r) # {}

\* Deliveries that have begun are of commitments accepted before the world was read.  An
\* acceptance that a toolkit allowed later is in its history only where the guard appends.
AgreedDeliveries ==
  \A x \in DOMAIN Fulfillments :
    LET f == Fulfillments[x]
    IN f.commitment \in Commitments /\ (f.startedAt # None \/ f.state.type \in {"InProgress", "Completed"})
         => Initially[f.commitment].type \in AcceptedOrLater

\* One sequence of proposals has one answer in every language: once asked, each port has given the
\* verdict of the TypeScript session, its commitments are in the same states, and the
\* same refunds are on its ledgers, after whatever mix of retries, partial refunds,
\* refunds over the cap and moves.
ToolkitsAgree ==
  answer # "none" /\ TwoWayLinks /\ UniformTrees /\ AgreedDeliveries =>
    \A port \in {rust, golang, python} :
      /\ port.verdict = answer
      /\ \A c \in Commitments : port.world[c].state = world[c].state
      /\ port.ledger = ledger /\ port.tree = treeLedger
      /\ Cardinality(port.applied) = Cardinality(applied)
=============================================================================
