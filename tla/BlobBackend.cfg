SPECIFICATION Spec
CONSTANTS
  a = a
  b = b
  e = e
  Hashes = {a, b, e}
  Cells <- MCCells
  VolumeIds = {1, 2}
  VolumeSize = 3
  Writers = {w1, w2}
  MaxExposed = 1
  NoVolume = NoVolume
  NoHash = NoHash
  NoWriter = NoWriter
  MaxCrashes = 1
  DeviceSize = 5
  Threshold = 1
SYMMETRY WriterSymmetry
INVARIANTS
  
  LocalSurvives
  RawReadable
CHECK_DEADLOCK FALSE
