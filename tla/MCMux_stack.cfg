SPECIFICATION FairSpec
CONSTANTS
  Usages = {a, b}
  base = base
  nav = nav
  sym = sym
  s1 = s1
  s2 = s2
  s3 = s3
  Routes = {base, nav, sym}
  DefaultRoute = base
  NoRoute = NoRoute
  Switches = {s1, s2, s3}
  RouteOf <- OneEach
INVARIANTS TypeOK PressedOnOneRoute
PROPERTIES NoForeignRelease ImplementsStack SignalReturns
CHECK_DEADLOCK FALSE
