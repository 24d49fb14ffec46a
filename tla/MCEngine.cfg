SPECIFICATION EngineSpec
CONSTANTS
  d = d
  b1 = b1
  b2 = b2
  b3 = b3
  seller = seller
  USD = USD
  EUR = EUR
  good = good
  money = money
  None = None
  NoMoney = NoMoney
  Ids = {d, b1, b2, b3}
  Commitments = {d, b1, b2, b3}
  Actors = {seller}
  Currencies = {USD, EUR}
  Committed <- MCCommitted
  Parent <- MCParent
  Children <- MCChildren
  MayBuy = {d, b1, b2}
  Eps = 2
  Events <- MCEvents
  Times = {0}
  FixedClock = 0
  Initially <- MCInitially
  Fulfillments <- MCFulfillments
  Forms <- MCForms
  Profiles <- MCProfiles
  Bounds <- MCBounds
  Packs <- MCPacks
  Auctions <- MCAuctions
  Offer <- MCOffer
  Superseded = {b2}
  MaxHistory = 4
INVARIANTS
  EffectsTellMoves
  OneCapturedBid
  AgreedAboveFloors
  ApprovedSettlementsAccount
