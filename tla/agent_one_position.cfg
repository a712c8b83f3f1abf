SPECIFICATION FairSpec
CONSTANTS
  Tickets = {t1, t2}
  Outsiders = FALSE
  Halts = TRUE
  LongBlips = TRUE
  FillBlips = TRUE
  MaxBlips = 0
  MaxFaults = 1
  MaxCrashes = 1
INVARIANTS
  TypeOK
  OnePosition
PROPERTY QuietHaltFlattens
