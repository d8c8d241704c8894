SPECIFICATION NodeSpec
CONSTANTS
  Keys = {k1, k2}
  Bodies = {b1, b2}
  Types = {t1}
  t1 = t1
  Ids = {u1}
  PartNumbers = {1, 2}
  Handlers = {h1, h2}
  Absent = Absent
  Free = Free
  Bad = Bad
  HeaderKinds <- MCHeaderKinds
  MaxRequests = 6
  MaxParts = 2
  MaxFaults = 1
  Names <- MCNames
  Queries <- MCQueries
  Decodes <- MCDecodes
  MaxWrites = 2
  N = 3
  None = None
  splay = splay
  chain = chain
  Modes <- MCModes
  Order <- MCOrder
  Factors = {2, 4}
  Floors = {0, 2, 4}
  MaxChanges = 2
  MaxLosses = 1
  MaxTicks = 3
  Purposes <- MCPurposes
  Workers = {w1, w2}
  NoKey = NoKey
  MaxKeys = 4
  MaxFailures = 1
SYMMETRY MCSymmetry
CHECK_DEADLOCK FALSE
INVARIANTS
  
  RangeServed
  AssembledOnce
  
  ModesAgree
  FloorKept
  LatestKeyActive
PROPERTY
  ActiveKept
