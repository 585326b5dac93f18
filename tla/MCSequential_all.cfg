SPECIFICATION MCSpec
CONSTANTS
  s1 = s1
  s2 = s2
  a = a
  b = b
  c = c
  shift = shift
  none = none
  Sources = {s1, s2}
  Flags = {shift}
  Keys = {a, b, c}
  N = 2
  NoUsage = none
  Reports <- TwoBytes
  Sizes = {0, 1, 3, 7, 8, 11, 16}
  InputConfigs <- UpToThree
  Items <- KeyboardAndMouse
  Devices = {"k1", "k2"}
  BoundUsages = {"a", "b", "c"}
  Toggled = {"x", "y", "z"}
  MappingConfigs <- SomeMappings
  SplitUsages <- FourUsages
  Codes = {"0x07", "0x09", "0xff"}
  Pages <- KnownPages
  SplitConfigs <- TwoRoutes
  Downstreams = {"n1", "n2"}
  Wildcard = "*"
  NodeTypes <- AllTypes
  GraphActions = {"tap"}
  Flows <- SomeFlows
  Types = {"string", "number", "Duration", "Action", "Signal", "Usage", "any"}
  Kinds = {"string", "number", "duration", "boolean", "expr", "usage", "assignment", "null"}
  Defaults = {"none", "string", "number", "duration", "null"}
  MaxParams = 2
  MaxArgs = 3
  Subjects = {"codec", "bits", "ids", "input", "triggers", "split", "graph", "args", "keys"}
SYMMETRY Symmetry
INVARIANTS TypeOK CountsHolders ReportedIffHeld RoundTrip BitsKept OwnIds Announced TriggeredIffHeld OneRoute BuiltIffGraph ArgumentsArrive
CHECK_DEADLOCK FALSE
