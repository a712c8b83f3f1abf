SPECIFICATION MCSpec
CONSTANTS
  StickyAfter = 2
  OperatorRaces = FALSE
  MaxDay = 4
  MaxCrashes = 2
  MaxFaults = 2
  ReconnectAfter = 3
  MaxTerminals = 3
  MaxOutages = 1
INVARIANT TypeOK
PROPERTIES
  OnlyStaleHaltTouched
  
  StaleHaltResolved
  NoBlindOrder
  ReadsComeBackAtRest
CHECK_DEADLOCK FALSE
