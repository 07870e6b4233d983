SPECIFICATION Spec
CONSTANTS
  Names = {f, g}
  Arities = {0}
  SlotLimit = 1
  MaxVersions = 2
  NoName = NoName
  Idle = Idle
  Threads = {main, worker}
  Main = main
  MaxDepth <- MCMaxDepth
  MainDepth = 3
  OtherDepth = 3
  NoLookup = NoLookup
  Running = Running
  Crashed = Crashed
PROPERTIES
  UnwindingEnds
  ImplementsNamedFunctions
