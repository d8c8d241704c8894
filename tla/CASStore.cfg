SPECIFICATION Spec
CONSTANTS
  Names = {n1, n2}
  Hashes = {h1, h2}
  NoHash = NoHash
  NoName = NoName
  Presence = TRUE
  Retention = 1
  MaxClock = 3
  MaxRefCount = 3
SYMMETRY Symmetry
INVARIANT TypeOK
INVARIANT RefCountCoversNames
 
PROPERTY OnlyOrphansReaped
