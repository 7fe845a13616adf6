SPECIFICATION Spec
CONSTANTS
  Mojo = {m1, m2}
  Holder = {alice, bob}
  NoBill = NoBill
  Bill <- StatuteBills
  Policy <- MCPolicy
  GenesisPolicy <- Majority
  TrackerSpendsPerBlock = 2
  Moving = {}
  MaxTime = 2
  MaxVersion = 2
  MaxTally = 4
INVARIANT TallyWithinSupply
