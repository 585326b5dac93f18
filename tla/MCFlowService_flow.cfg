SPECIFICATION FairSpec
CONSTANTS
  a = a
  b = b
  torn = torn
  Torn = torn
  NodeSeq <- TwoNodes
  Stories <- Both
  ValidTrees = {"t1", "t2", "t3"}
  Rejected = {"bad"}
  Fragile = {b}
  MaxGraphs = 4
  MaxSaves = 3
INVARIANTS OneFlow LastValidTree OneInstance ConfigsBacked
PROPERTIES TakesEffect ShutsDown
CHECK_DEADLOCK FALSE
