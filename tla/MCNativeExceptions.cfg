SPECIFICATION Spec
CONSTANTS
  Arenas <- MCArenas
  Addresses <- MCAddresses
  HeapPlaces <- LowestPlace
  Chains <- MCChains
  Sizes <- MCSizes
  ChunkSize = 8
  MaxRecords = 3
  AccessViolation = 5
  MaxFrames = 2
  MaxScopes = 1
  EditedCounts = {4}
  MaxBlocks = 1
  MaxRaised = 2
INVARIANTS
  BlocksAreApart
  ChainsStayWhole
