SPECIFICATION TypesSpec
CONSTANTS
  Threads = {main, worker}
  Main = main
  Primitives <- MCPrimitives
  Extents = {3, 15}
  Packs = {1, 2, 8}
  MaxWord = 15
  MaxTypes = 4
  MaxFields = 3
  Idle = Idle
INVARIANTS
  TypeInfosOK
  ArraysAreInterned
  LayoutsAreSound
