SPECIFICATION CacheSpec
CONSTANTS
  Keys = {k1, k2, k3}
  Requests = {r1, r2}
  Sizes = {1, 2, 3}
  MaxBytes = 4
  Share = 2
  Ttl = 2
  MaxHandling = 1
  MaxTime = 4
SYMMETRY Symmetric
CHECK_DEADLOCK FALSE
INVARIANT CacheTypeOK
INVARIANT BooksBalance
PROPERTY EvictsLeastRecent
PROPERTY ServedAgeBounded
