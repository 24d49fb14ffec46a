SPECIFICATION HostsSpec
CHECK_DEADLOCK FALSE
CONSTANTS
  o1 = o1
  o2 = o2
  x1 = x1
  x2 = x2
  y1 = y1
  y2 = y2
  ghost = ghost
  r1 = r1
  r2 = r2
  r3 = r3
  r4 = r4
  r5 = r5
  first = first
  second = second
  again = again
  alice = alice
  bob = bob
  USD = USD
  EUR = EUR
  None = None
  NoMoney = NoMoney
  Idle = Idle
  Ids = {o1, o2, x1, x2, y1, y2, ghost}
  Commitments = {o1, o2, x1, x2, y1, y2}
  Actors = {alice, bob}
  Currencies = {USD, EUR}
  Committed <- MCCommitted
  Parent <- MCParent
  Children <- MCChildren
  MayBuy = {o1, o2, x1, x2, y1, y2}
  Eps = 1
  Requests <- MCRequests
  Times = {0}
  Initially <- MCInitially
  Fulfillments <- MCFulfillments
  MaxHistory = 8
  Rmas <- MCRmas
  Desks = {"returns"}
PROPERTIES
  FailureLeavesNoTrace
