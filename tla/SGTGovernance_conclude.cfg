SPECIFICATION FairSpec
CONSTANTS
  Mojo = {m1, m2}
  Holder = {alice}
  NoBill = NoBill
  Bill <- MintBills
  Policy <- MCPolicy
  GenesisPolicy <- Majority
  TrackerSpendsPerBlock = 1
  Moving = {"registry"}
  MaxTime = 3
  MaxVersion = 2
  MaxTally = 2
PROPERTY VotesConclude
