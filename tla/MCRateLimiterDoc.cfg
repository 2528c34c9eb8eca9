CONSTANTS
  out = out
  in = in
  Directions <- MCDirections
  Settings <- MCSettings
  Amounts = {2, 5}
  MaxU64 = 18
  MaxTime = 5
SPECIFICATION LimiterSpec
INVARIANT
  AtMostLimitPerWindow
