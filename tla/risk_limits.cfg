SPECIFICATION MCSpec
CONSTANTS
  Balances = {0, 5000, 10000, 29900, 30000, 99900, 150000, 1000000}
  Stops = {2, 5, 10, 20, 30, 60}
  Risks = {12, 25, 50, 100, 150, 200}
  Margins = {0, 200, 230, 5000, 150000}
  PipStep = 10
  MarginStep = 200
  BufferPct = 90
  MinLot = 1
  MaxLot = 100
  MaxRisk = 200
  HardRisk = 150
  Target = 100
  Floor = 300
  Tiers <- MCTiers
  Opening = 100
  Stop = 1
  Gain = 1
  Marks <- MCMarks
  LimitPct = 3
  GarbagePct = 60
  Glitches = {0, 20}
  MaxDay = 1
  MaxEntries = 9
  MaxRestarts = 1
  Symbols = {"eur", "gbp", "cad"}
  Manual = "hand"
  Trades <- MCTrades
  TwiceMult = 5
  MinDist = 8
  Cap = 50
  MaxBlanks = 1
  Prices <- MCPrices
  SoftDist = 10
  TwiceCata = 5
  MinCata = 8
  MinInfer = 4
  PanicMult = 1
  BeAtR = 1
  LockR = 0
  PartialAtR = 1
  PartialExit = TRUE
  Trailing = TRUE
  TrailGap = 15
  StopsFill = TRUE
  Volume = 4
  MaxLapses = 2
  Timeframes <- MCTimeframes
  Period <- MCPeriod
  Grace = 1
  Closed = {4}
  MaxAge = 3
  MaxErrors = 2
  MaxNow = 6
  MaxFaults = 2
INVARIANTS
  OrderWithinBudget
  DayBudget
  BreakevenHeld
  PartialsBounded
  BarsOnce
  MarkedBarsEvaluated
PROPERTIES
  HaltedDayStands
  
  RiskNeverGrows
  StallNoticed
CHECK_DEADLOCK FALSE
