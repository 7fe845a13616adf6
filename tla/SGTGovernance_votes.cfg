SPECIFICATION FairSpec
CONSTANTS
  Mojo = {m1, m2}
  Holder = {alice}
  NoBill = NoBill
  Bill <- VoteBills
  Policy <- MCPolicy
  GenesisPolicy <- Unanimity
  TrackerSpendsPerBlock = 2
  Moving = {"registry"}
  MaxTime = 3
  MaxVersion = 2
  MaxTally = 3
INVARIANTS TallyBacked SupplyBoundsTally SnapshotCurrent
PROPERTIES VotesStayLocked ImplementsBallot LocksReturn FailedVoteClears
