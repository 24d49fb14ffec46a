SPECIFICATION DesksSpec
CONSTANTS
  o1 = o1
  o2 = o2
  w = w
  v = v
  q = q
  ghost = ghost
  seller = seller
  USD = USD
  EUR = EUR
  MAD = MAD
  None = None
  NoMoney = NoMoney
  Ids = {o1, o2, w, v, q, ghost}
  Commitments = {o1, o2, w, v, q}
  Actors = {seller}
  Currencies = {USD, EUR, MAD}
  Committed <- MCCommitted
  Parent <- MCParent
  Children <- MCChildren
  MayBuy = {o1, o2, w, v, q}
  Eps = 2
  Requests <- MCRequests
  Times = {0, 1}
  Initially <- MCInitially
  Fulfillments <- MCFulfillments
  MaxHistory = 7
  Cap <- MCCap
  Windows <- MCWindows
  Instants = {0, 2, 3}
INVARIANTS
  TypeOK
  PaidWithinCommitted
  RefundedMeansPaidInFull
  HistoryUnbroken
  NoBurstInAnySpan
  NoBurstInAnyRun
  WindowSeesEveryRefund
PROPERTIES
  AppliedOnce
  RefundAccountSpec
