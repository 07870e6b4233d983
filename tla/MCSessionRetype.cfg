SPECIFICATION Spec
CONSTANTS
  Vars = {x, y}
  Funs = {f, n, m}
  Statements <- RetypeStatements
  MaxModule = 2
  MaxFrames = 3
  x = x
  y = y
  f = f
  n = n
  m = m
INVARIANTS
  ValuesFitTheirTypes
