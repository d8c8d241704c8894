SPECIFICATION Spec
CONSTANTS
  Peers = {"p1", "p2"}
  Callers = {"q1", "q2"}
  Names = {"a", "long"}
  LongNames = {"long"}
  Points = {"x", "y"}
  Threshold = 3
  Starts <- MCStarts
  MaxEvents = 1
INVARIANTS AnswersMatch   OprfQuorum
PROPERTIES CallsReturn
CHECK_DEADLOCK FALSE
