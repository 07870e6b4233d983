SPECIFICATION Spec
CONSTANTS
  Vars = {x, y}
  Funs = {f, n, m}
  Statements <- PlainStatements
  MaxModule = 3
  MaxFrames = 3
  x = x
  y = y
  f = f
  n = n
  m = m
INVARIANTS
  NamesResolve
  PredictedNamesHold
  PredictedTypesHold
  NativeCallsAreDeclared
  ValuesFitTheirTypes
