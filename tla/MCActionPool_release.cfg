SPECIFICATION Spec
CONSTANTS
  plain = plain
  k1 = k1
  k2 = k2
  Keys = {plain, k1, k2}
  UsageOf <- PlainUsage
  Settings <- Releasing
  MaxContexts = 2
INVARIANTS NoDoubleFinalize TypedAndReleased
CHECK_DEADLOCK FALSE
