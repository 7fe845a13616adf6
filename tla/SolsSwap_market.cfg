SPECIFICATION SwapSpec
CONSTANTS
  d1 = d1
  d2 = d2
  c1 = c1
  v1 = v1
  v2 = v2
  Deed <- MCDeed
  Collection <- MCCollection
  CollectionOf <- MCCollectionOf
  Share <- MCShare
  ShareDenominator = 10
  FeeDenominator = 10000
  FeeBps = 100
  BootstrapValue = 2
  SolsUnit = 3
  NavValidity = 3
  Listing <- MCListing
  NoListing = NoListing
  Vault <- MCVault
  FirstVault <- MCFirstVault
  Custody = Custody
  Wallet = Wallet
  MaxSols = 14
  MaxTime = 2
  MaxEvidence = 1
  MaxVersion = 5
  MaxRegistry = 3
  Expiry <- MCExpiry
  Payee <- MCPayee
  MaxVaultCoin = 2
  MaxQuotes = 2
  Taken = {6}
  Added <- MCAdded
  MaxUngated = 5
INVARIANTS PoolOpenable NeverDrained InventoryIsHeld BooksMatchCoins
PROPERTIES NavNeverFalls NoFreeRoundTrip ImplementsMarket
