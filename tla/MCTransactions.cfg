SPECIFICATION MCSpec
CONSTANTS
  Keys = {k1, k2, k3}
  Goroutines = {g1, g2}
  MaxCached = 2
  MaxResponses = 2
  H248Keys = {h1, h2, h3}
  H248Goroutines = {f1, f2, f3}
  H248MaxCached = 2
SYMMETRY Symmetry
INVARIANTS
  CacheOrdered
  InFlightSuppressed
  H248CacheOrdered
