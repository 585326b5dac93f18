SPECIFICATION Spec
CONSTANTS
  a = a
  Addr = a
  MaxChanges = 3
  MaxRuns = 2
  MaxReports = 2
INVARIANTS TypeOK OneHolder Follows
PROPERTIES Returns
CHECK_DEADLOCK FALSE
