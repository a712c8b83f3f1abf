SPECIFICATION FairSpec
CONSTANTS
  Tickets = {t1, t2}
  Outsiders = TRUE
  Halts = FALSE
  LongBlips = FALSE
  FillBlips = FALSE
  MaxBlips = 2
  MaxFaults = 1
  MaxCrashes = 0
INVARIANT CountedOnce
PROPERTIES
  
  KnownClosesCounted
