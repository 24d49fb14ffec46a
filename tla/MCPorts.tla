------------------------------ MODULE MCPorts ------------------------------
(* Two agents and one accepted order that can be modified and accepted again. *)
EXTENDS Ports, TLC

CONSTANTS o, alice, bob, USD

MCCommitted == o :> [amount |-> 2, currency |-> USD]
MCParent == o :> None
MCChildren == o :> {}
MCInitially == o :> Plain("Accepted")
MCProposals ==
  [commitment : {o}, to : {Plain("Modified"), Plain("Accepted"), Plain("Active")},
   actor : {alice, bob}, key : {None}]
MCFulfillments == [f \in {} |-> None]
=============================================================================
