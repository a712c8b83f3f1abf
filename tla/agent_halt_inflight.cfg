SPECIFICATION FairSpec
CONSTANTS
  Tickets = {t1}
  Outsiders = FALSE
  Halts = TRUE
  LongBlips = FALSE
  FillBlips = FALSE
  MaxBlips = 0
  MaxFaults = 0
  MaxCrashes = 0
PROPERTY HaltFlattens
