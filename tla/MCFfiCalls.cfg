SPECIFICATION Spec
CONSTANTS
  Paths = {upper, short, other, missing}
  Canonical <- MCCanonical
  FileOf <- MCFileOf
  Files = {first, second}
  Exports <- MCExports
  OrdinalLimit = 2
  NoFile = NoFile
  NoKey = NoKey
  Threads = {main, worker}
  Main = main
  Symbols = {1, 4}
  MaxNesting <- MCMaxNesting
  Unknown = Unknown
  NoCall = NoCall
  upper = upper
  lower = lower
  short = short
  other = other
  missing = missing
  first = first
  second = second
  fn = fn
INVARIANTS
  FocusedIsLoaded
  EntriesHoldReferences
  SymbolsAreExported
  RememberedExternalKeepsDll
  CallsRunMappedCode
  FocusIsAsAsked
