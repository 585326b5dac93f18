SPECIFICATION Spec
CONSTANTS
  a = a
  b = b
  torn = torn
  Torn = torn
  NodeSeq <- TwoNodes
  Stories <- Early
  ValidTrees = {"t1", "t2", "t3"}
  Rejected = {"bad"}
  Fragile = {}
  MaxGraphs = 3
  MaxSaves = 1
INVARIANTS NoCrash
CHECK_DEADLOCK FALSE
