SPECIFICATION VaultSpec
CONSTANTS
  BarTouches = {"stop", "target", "both", "none"}
  MaxBars = 3
  Resolvers = {1}
  MaxTears = 0
INVARIANT EventsKept
CHECK_DEADLOCK FALSE
