SPECIFICATION Spec
CONSTANTS
  StickyAfter = 3
  OperatorRaces = FALSE
  MaxDay = 4
  MaxCrashes = 3
  MaxFaults = 0
INVARIANT NoSilentThrash
