CONSTANTS
  Times = {5, 95, 100, 105}
  MaxSols = 3
SPECIFICATION FSpec
INVARIANT FastestKept
