SPECIFICATION FairSpec
CONSTANTS
  d1 = d1
  d2 = d2
  Deed = {d1, d2}
  NoPurchase = NoPurchase
  Purchase <- AllPurchases
  Driven <- DriverPurchases
  ExtensionLimit = 1
  ReceiptLife = 2
  artifact <- AllAmounts
  terms <- Prices
  FeeCap = 1000
  TestUnits = 10000
  AssetUnits = 10
  SpreadCap = 300
  SourceLife = 2
  MaxBatch = 2
  Coin = {60, 70}
  Evidence <- Reports
  MaxReceipts = 1
  MaxTime = 3
  Cap = 2
  SaleOpen = 0
  SaleClose = 1
  RefundDeadline = 2
  LaunchDeadline = 2
  DeliveryWindow = 1
  AnchorSlack = 1
INVARIANTS DeliveredIsPaid OutcomesAgree SeriesAccounts RevenueExact
PROPERTIES ImplementsExchange LiveSettles
CHECK_DEADLOCK FALSE
