SPECIFICATION ChartSpec
CONSTANTS
  Candles <- MCCandles
  MaxSeries = 6
  SwingLookback = 1
  MinGap = 1
  BreakGap = 1
  MinImpulse = 3
  BaseLookback = 2
  MedianHalf = 2
  Overlap = 1
  Departure = 2
  MaxZoneAge = 4
  Warmup = 2
  HtfFactor = 1
  HtfLookback = 1
  MinMove = 1
INVARIANT Reproducible
CHECK_DEADLOCK FALSE
