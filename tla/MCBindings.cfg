SPECIFICATION Spec
CONSTANTS
  Threads = {main, worker}
  Main = main
  Types = {byte, short, half}
  Width <- MCWidth
  Size = 2
  Values = {1, 2}
  Zero = Zero
  Garbage = Garbage
  byte = byte
  short = short
  half = half
INVARIANTS
  ReadsAreWhole
  StorageFitsType
