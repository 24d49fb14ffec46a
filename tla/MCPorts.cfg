SPECIFICATION PortsSpec
CONSTANTS
  o = o
  alice = alice
  bob = bob
  USD = USD
  None = None
  NoMoney = NoMoney
  Ids = {o}
  Commitments = {o}
  Actors = {alice, bob}
  Currencies = {USD}
  Committed <- MCCommitted
  Parent <- MCParent
  Children <- MCChildren
  MayBuy = {o}
  Eps = 1
  Proposals <- MCProposals
  Initially <- MCInitially
  Fulfillments <- MCFulfillments
INVARIANTS
  ConflictVerdictIdentical
