CONSTANTS
  a = a
  b = b
  c = c
  h1 = h1
  h2 = h2
  Nodes = {a, b, c}
  Uploads = {u1}
  Hashes = {h1}
  NoHash = NoHash
  Placement <- TwoOfThree
  ReplicationOrder <- AllModes
  ClientSide = {"primarySplay"}
  Limit = 2
  MaxFaults = 1
  Panics = TRUE
SPECIFICATION FairSpec
CHECK_DEADLOCK FALSE
INVARIANT TypeOK
INVARIANT AckedIsReplicated
PROPERTY SlotsFreed
