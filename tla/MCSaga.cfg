SPECIFICATION PortSagasSpec
CONSTANTS
  p = p
  a = a
  b = b
  g = g
  u = u
  ghost = ghost
  seller = seller
  USD = USD
  None = None
  NoMoney = NoMoney
  NoAction = NoAction
  Ids = {p, a, b, g, u, ghost}
  Commitments = {p, a, b, g, u}
  Actors = {seller}
  Currencies = {USD}
  Committed <- MCCommitted
  Parent <- MCParent
  Children <- MCChildren
  MayBuy = {p, a, b, g, u}
  Eps = 1
  Requests <- MCRequests
  Times = {0}
  Initially <- MCInitially
  Fulfillments <- MCFulfillments
  MaxHistory = 7
  CompensateWith <- MCCompensateWith
  MaxForward = 3
  MaxUnwinds = 2
CHECK_DEADLOCK FALSE
INVARIANTS
  UnwoundMeansReversed
  FailsOnlyWhenOvertaken
  SagaPaysWithinTree
  PortsUnwindAlike
PROPERTIES
  UnwindingEnds
