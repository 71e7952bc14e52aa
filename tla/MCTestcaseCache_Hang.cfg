CONSTANTS
  Seeds = {s1, s2, s3, s4}
  Lens = {1, 2}
  MaxCacheSize = 4
  MaxEntries = 4
  Slots = 6
  AllowAllocFail = FALSE
  Null = Null
SPECIFICATION CacheSpec
SYMMETRY SeedSymmetry
INVARIANT GetTerminates
