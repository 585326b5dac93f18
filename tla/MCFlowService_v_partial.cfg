SPECIFICATION Spec
CONSTANTS
  a = a
  b = b
  torn = torn
  Torn = torn
  NodeSeq <- TwoNodes
  Stories <- Partly
  ValidTrees = {"t1", "t2", "t3"}
  Rejected = {"bad"}
  Fragile = {}
  MaxGraphs = 2
  MaxSaves = 1
INVARIANTS OneConfiguration
CHECK_DEADLOCK FALSE
