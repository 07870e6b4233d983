SPECIFICATION Spec
CONSTANTS
  a = a
  e = e
  Names <- MCNames
  Bodies <- MCBodies
  Size <- MCSize
  Programs <- MCPrograms
  Unbound = Unbound
INVARIANTS
  ScopesFollowFrames
  UsesAreAsChecked
  JumpsReachTheirLoop
  FunctionsReturn
