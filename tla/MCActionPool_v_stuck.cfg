SPECIFICATION Spec
CONSTANTS
  plain = plain
  k1 = k1
  k2 = k2
  Keys = {plain, k1, k2}
  UsageOf <- PlainUsage
  Settings <- Modding
  MaxContexts = 3
INVARIANTS NothingStuck
CHECK_DEADLOCK FALSE
