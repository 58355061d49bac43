CONSTANTS
  l1 = l1  l2 = l2  l3 = l3  p1 = p1  p2 = p2  p3 = p3
  Loaders <- MCLoaders
  Pairs <- MCPairs
  Preloaded <- MCPreloaded
  PairsOf <- MCPairsOf
  UniqueKey = TRUE
SPECIFICATION LSpec
INVARIANT CountsExact LoadedExactlyOnce LInv
\* add_jobs returns once every pair has been gone through.
CHECK_DEADLOCK FALSE
