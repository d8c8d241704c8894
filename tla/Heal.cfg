SPECIFICATION Spec
CONSTANTS
  Nodes = {1, 2}
  Layouts <- MCLayouts
  Menders = {1}
  MaxRots = 1
  MaxRestarts = 1
INVARIANTS CleanReads LastGoodCopy
 
CHECK_DEADLOCK FALSE
