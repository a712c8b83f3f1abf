SPECIFICATION Spec
CONSTANTS
  MaxConsecutiveLosses = 2
  CooldownSlots = 2
  DayLength = 3
  Directions = {long, short}
  NoDirection = unknown
  Tickets = {t1, t2}
  Phantoms = {"loss", "win"}
  MaxNow = 4
  MaxLosses = 3
SYMMETRY Symmetry
INVARIANTS
  TypeOK
  BreakerHolds
  SizeFollowsStreak
  LossesCounted
  StopOutHalts
 
