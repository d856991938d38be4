CONSTANTS
  job = job
  trigger = trigger
  backfill = backfill
  nifty = nifty
  bank = bank
  none = none
  Symbols <- Indices
  None <- none
  First = 1
  Last = 2
  Scans <- TwoScans
  Backfill <- backfill
  MaxBackfills = 1
  MaxFaults = 1
  Clock = 569
  Today = 2
  TodayBars <- Morning
  PastBars <- Yesterday
  Prev <- PrevDay
  Profile <- SlotNorms
  Quotes <- QuotedPrices
  MaxMinute = 2
  MaxTicks = 2
  MaxFailures = 1
  DayBars <- DailyBars
  MaxDays = 7
  Window = 1
  Tolerance = 1000
  Strength = 2
  MaxLosses = 1
SPECIFICATION MarketSpec
SYMMETRY ScanSymmetry
CHECK_DEADLOCK FALSE
INVARIANTS
  TypeOK
  Mirrored
  TicksKept
  ZonesApart
  OpeningRange
PROPERTIES
  SnapshotExact
