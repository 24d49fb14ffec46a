SPECIFICATION ToolsSpec
CHECK_DEADLOCK FALSE
CONSTANTS
  deal = deal
  order = order
  east = east
  west = west
  plot = plot
  ghost = ghost
  buyer = buyer
  seller = seller
  USD = USD
  EUR = EUR
  v1 = v1
  v2 = v2
  v3 = v3
  w0 = w0
  w1 = w1
  w2 = w2
  odd = odd
  None = None
  NoMoney = NoMoney
  Absent = Absent
  Ids = {deal, order, east, west, plot, ghost}
  Commitments = {deal, order, east, west, plot}
  Actors = {buyer, seller}
  Currencies = {USD, EUR}
  Committed <- MCCommitted
  Parent <- MCParent
  Children <- MCChildren
  MayBuy = {deal, order, east, west}
  Eps = 2
  Requests <- MCRequests
  Times = {0}
  Initially <- MCInitially
  Fulfillments <- MCUnderWay
  MaxHistory = 7
  Deal = deal
  Limits <- MCLimits
  Prices <- MCPrices
  MaxSteps = 5
  Due <- MCDue
  Partials <- MCPartials
  MaxSettlements = 5
  Wholes <- MCWholes
  Shares <- MCShares
  Weightings <- MCWeightings
  MaxChildren = 4
  Tables <- MCTables
  Starts = {"Draft", "Accepted"}
  Depths = {None, 0, 1, 2}
  Models <- MCModels
  Offered <- MCOffered
  Versions = {v1, v2, v3}
  Worlds = {w0, w1, w2, odd}
  Sound = {w1, w2}
  Batches <- MCBatches
  Formulas <- MCFormulas
  Documents <- MCDocuments
  Options <- MCOptions
  Subjects <- MCSubjects
  Day = 2
  Offers <- MCOffers
  Projects <- MCProjects
  MaxRounds = 2
  OrderId = order
  Adapter = seller
  Instants = {0, 1}
  Totals <- MCTotals
  Unstated <- MCUnstated
  MaxImports = 2
  Goods <- MCGoods
  Payments <- MCPayments
  Clocks = {0, 1}
  MaxLines = 2
  MaxLog = 4
  Pages <- MCPages
  Notes = {n1, n2}
  n1 = n1
  f1 = f1
  n2 = n2
  Width = 7
  MaxEdits = 2
  Calls <- MCCalls
  Proposals <- MCProposals
  StartsAs <- MCInitially
  Deliveries0 <- MCDeliveries
  MinorPerUnit <- MCMinorPerUnit
  BridgeClocks = {0, 1}
  MaxCalls = 3
  Manifests <- MCManifests
  Outlines <- MCOutlines
  NewLines <- MCNewLines
  MaxOutline = 3
  Elsewhere = {0, 1}
  Thresholds = {67, 100}
  NoReport = NoReport
  Desks = {"negotiation", "settlement", "split", "verifier", "platforms", "migration", "interop",
           "formulas", "authoring", "toolkits", "workflow", "adapters", "builder", "grammar", "bridge", "conformance", "coverage"}
INVARIANTS
  StandingTellsMoves
  SettledWithinDue
  SharesWithinWhole
  CutsComplete
  SearchesAgree
  MigratedSoundly
  PictureIsWhole
  LanguageIsFaithful
  CopiesAgree
  GeneratedWorkflowIsSound
  OrdersMadeSoundly
  ProtocolsMoveSoundly
  ObserversTell
PROPERTIES
  RefusalRecordsNothing
  ToolsReturn
