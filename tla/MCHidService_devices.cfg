SPECIFICATION Spec
CONSTANTS
  i1 = i1
  i2 = i2
  o1 = o1
  Inputs = {i1, i2}
  Outputs = {o1}
  Uhid <- Dropped
  MaxPlugs = 2
  MaxFailures = 1
  FastReplug = FALSE
  EarlySave = FALSE
INVARIANTS InSync UhidCurrent
PROPERTIES ImplementsFeed Noticed
CHECK_DEADLOCK FALSE
