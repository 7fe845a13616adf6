SPECIFICATION FairSpec
CONSTANTS
  k1 = k1
  Key = {k1}
  Change <- Changes
  SgtSupply = 10
  Genesis <- GenesisParameters
  MaxEvidence = 1
  c1 = c1
  c2 = c2
  p1 = p1
  p2 = p2
  Code = {c1, c2}
  Params = {p1, p2}
  GenesisCode = c1
  GenesisParams = p1
  MaxApproved = 1
  NoBill = NoBill
  MaxTime = 2
  Asked <- Entries
  Content <- Contents
INVARIANTS TablesValid EvidenceIsCurrent VersionNamesState
PROPERTIES CodeIsRatified BillsConclude
CHECK_DEADLOCK FALSE
