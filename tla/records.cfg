SPECIFICATION MCSpec
CONSTANTS
  States = {one, two}
  NoState = none
  Torn = torn
  MaxFails = 2
  NoValue = novalue
  Symbols = {"EURUSD", "USDJPY"}
  Interval = 2
  Cooldown = 2
  Period = 3
  MaxAttempts = 2
  MaxDrops = 1
  MaxErrors = 2
  MaxMinutes = 6
  MaxEvents = 2
  BarTouches <- MCTouches
  MaxBars = 3
  Resolvers = {1, 2}
  MaxTears = 1
  Announcements <- MCAnnouncements
  Currencies = {"usd", "eur"}
  Impacts = {"high"}
  BeforeMin = 1
  AfterMin = 1
  Horizon = 4
  TTL = 2
  MaxTime = 5
  NoTime = allday
  Closes = {20, 24}
  Spread = 1
  Slippage = 1
  Volumes = {1, 2}
  Levels = {17, 30}
  Initial = 100
  MaxTickets = 2
  N = 6
  Chunk = 2
  Lead = 1
  Trail = 2
  Prices <- MCPrices
  Sources <- MCSources
  Targets <- MCTargets
  MaxRungs = 2
  Dedupe = 2
  Groups <- MCGroups
  History <- MCHistory
  Sessions <- MCSessions
  Years = 4
  ISYears = 2
  FDR = 40
  MinOos = 1
  Absent = absent
  Trades <- MCTrades
  MaxDetail = 1
  MinN = 1
  MaxDay = 1
  MaxLines = 10
  MaxRuns = 2
  Candles <- MCCandles
  MaxSeries = 8
  SwingLookback = 2
  MinGap = 1
  BreakGap = 1
  MinImpulse = 3
  BaseLookback = 2
  MedianHalf = 2
  Overlap = 1
  Departure = 2
  MaxZoneAge = 4
  Warmup = 2
  HtfFactor = 1
  HtfLookback = 1
  MinMove = 1
  Traders <- MCAccounts
  Tickets <- MCTickets
  Amounts <- MCAmounts
  Tolerance = 0
  MaxLogged = 6
INVARIANTS
  AlarmTrue
  LossesExplained
  
  JournalTrue
  
  BlackoutStands
  LadderFaithful
  ScoredOnce
  VerdictHonest
PROPERTIES
  ImplementsRegister
  BooksBalance
  NoRepaint
CHECK_DEADLOCK FALSE
