\* Three nodes, one lease each: the smallest odd cluster with rivals.
CONSTANTS
  Nodes = {a, b, c}
  Once = {a, b, c}
  Twice = {}
  Budget <- MCBudget
  Duration = 2
  MaxClock = 3
  NoLease = NoLease
SPECIFICATION Spec
SYMMETRY Symmetry
INVARIANT TypeOK
 
INVARIANT GrantsRemembered
