CONSTANTS
  nifty = nifty
  bank = bank
  noSym = noSym
  Symbols <- OneSymbol
  NoSym <- noSym
  OrbHigh = 1000
  OrbLow = 990
  Partial <- EarlyRanges
  Prices <- PriceRange
  Snapshots <- Levels
  Nearest <- LevelsAhead
  Bands <- RecentRanges
  Entry = 200
  PaMinGain = 1
  MaxDays = 2
SPECIFICATION Spec
CHECK_DEADLOCK FALSE
INVARIANTS
  TypeOK
  FirstTickHolds
PROPERTIES
  OrbRespected
