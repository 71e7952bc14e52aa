CONSTANTS
  Seeds = {s1, s2, s3, s4}
  Lens = {1, 2}
  MaxCacheSize = 6
  MaxEntries = 4
  Slots = 6
  AllowAllocFail = FALSE
  Null = Null
SPECIFICATION CacheSpec
SYMMETRY SeedSymmetry
INVARIANT CacheTypeOK
INVARIANT CacheSizeExact
INVARIANT SlotsConsistent
INVARIANT CacheHintsSound
INVARIANT GetTerminates
PROPERTY CacheRefinement
