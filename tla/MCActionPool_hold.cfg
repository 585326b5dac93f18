SPECIFICATION FairSpec
CONSTANTS
  plain = plain
  k1 = k1
  k2 = k2
  Keys = {plain, k1, k2}
  UsageOf <- PlainUsage
  Settings <- Holding
  MaxContexts = 3
INVARIANTS TypeOK
PROPERTIES InterruptSettles ReleaseFinalizes
CHECK_DEADLOCK FALSE
