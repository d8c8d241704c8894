\* Two names, paths of two segments, and one handle.
CONSTANTS
  a = a
  b = b
  c1 = c1
  m1 = m1
  Names = {a, b}
  MaxDepth = 2
  Contents = {c0, c1}
  Empty = c0
  NoHash = NoHash
  Modes = {m1, m2}
  DefaultMode = m1
  Absent = Absent
  Handles = {x}
  Starts <- MCStarts
  MaxOps = 2
  MaxFaults = 1
SPECIFICATION Spec
INVARIANT EntriesReadable
INVARIANT ListedIsFound
PROPERTY WholeOperations
CHECK_DEADLOCK FALSE
