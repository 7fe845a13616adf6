SPECIFICATION FairSpec
CONSTANTS
  k0 = k0
  k1 = k1
  k2 = k2
  spare = spare
  r0 = r0
  r1 = r1
  r2 = r2
  kit = kit
  Credential <- MCCredential
  NoCredential = NoCredential
  Genesis <- MCGenesis
  RoutineDelay = 1
  LostDelay = 2
  MaxTime = 5
  MaxVersion = 5
INVARIANTS Mirror VetoOpen
PROPERTIES OthersHeld ImplementsKeyChange IdentitySettles

