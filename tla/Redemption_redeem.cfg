SPECIFICATION Spec
CONSTANTS
  v1 = v1
  v2 = v2
  d1 = d1
  d2 = d2
  d3 = d3
  b1 = b1
  e1 = e1
  NoVault = NoVault
  NoPlan = NoPlan
  Vault = {v1, v2}
  Deed = {d1, d2}
  Key = {b1, e1}
  AuthOf <- Keys
  FirstKey <- FirstKeys
  FirstHolder <- Holders
  Attested = {v1}
  Asked <- MCAsked
  MaxCoin = 2
  MaxSigned = 2
  Rank <- Ranks
  ShareDenominator = 10
  Plan <- MCPlan
  MaxTime = 2
INVARIANTS PayoutsExact
PROPERTY LeavesAsAnnounced
