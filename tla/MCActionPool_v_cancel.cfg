SPECIFICATION FairSpec
CONSTANTS
  plain = plain
  k1 = k1
  k2 = k2
  Keys = {plain, k1, k2}
  UsageOf <- PlainUsage
  Settings <- Toggling
  MaxContexts = 3
PROPERTIES StopsWhenCancelled
CHECK_DEADLOCK FALSE
