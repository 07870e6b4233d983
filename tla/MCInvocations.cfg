SPECIFICATION MCSafetySpec
CONSTANTS
  Names = {f, g}
  Arities = {0, 1}
  SlotLimit = 2
  MaxVersions = 2
  NoName = NoName
  Idle = Idle
  Threads = {main, worker}
  Main = main
  MaxDepth <- MCMaxDepth
  MainDepth = 3
  OtherDepth = 3
  NoLookup = NoLookup
  Running = Running
  Crashed = Crashed
INVARIANTS
  DepthCountsFrames
  FaultsStopAtNativeCode
  FramesRunTheirFunction
  TrampolinesHaveVersions
PROPERTIES
  ImplementsNamedFunctions
