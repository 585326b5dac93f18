SPECIFICATION FairSpec
CONSTANTS
  a = a
  b = b
  torn = torn
  Torn = torn
  NodeSeq <- TwoNodes
  Stories <- Swaps
  ValidTrees = {"t1", "t2", "t3"}
  Rejected = {"bad"}
  Fragile = {}
  MaxGraphs = 2
  MaxSaves = 1
PROPERTIES ShutsDownAnyway
CHECK_DEADLOCK FALSE
