SPECIFICATION Spec
CONSTANTS
  MaxConsecutiveLosses = 2
  CooldownSlots = 2
  DayLength = 4
  Directions = {long, short}
  NoDirection = unknown
  Tickets = {t1, t2}
  Phantoms = {"loss", "catastrophe"}
  MaxNow = 4
  MaxLosses = 4
INVARIANT StopOutStands
