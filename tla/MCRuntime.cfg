SPECIFICATION RuntimeSpec
CONSTANTS
  o = o
  x = x
  y = y
  f1 = f1
  agent = agent
  USD = USD
  EUR = EUR
  None = None
  NoMoney = NoMoney
  Ids = {o, x, y}
  Commitments = {o, x, y}
  Actors = {agent}
  Currencies = {USD, EUR}
  Committed <- MCCommitted
  Parent <- MCParent
  Children <- MCChildren
  MayBuy = {o, x, y}
  Eps = 1
  Requests <- MCRefunding
  Times = {0, 1}
  Initially <- MCDelivered
  Fulfillments <- MCNoFulfillments
  MaxHistory = 7
  MaxLog = 4
  MaxRestarts = 1
CHECK_DEADLOCK FALSE
INVARIANTS
  EffectsAreWhatIsOwed
  VerdictsReproduced
  ReplayRebuildsSession
