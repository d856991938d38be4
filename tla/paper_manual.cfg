CONSTANTS
  nifty = nifty
  bank = bank
  noSym = noSym
  consumer = consumer
  req1 = req1
  Symbols <- OneSymbol
  NoSym <- noSym
  Consumer <- consumer
  Requests <- OneRequest
  MaxDecisions = 1
  InitialBudget = 6
  SizePct = 90
  LotCosts <- OneLot
  LotCaps <- OneCap
  FlatFee = 1
  FeePct = 50
  Moves <- OnePnL
  PeakMax = 1
  MaxLate = 0
  MaxFaults = 2
SPECIFICATION FairSpec
CHECK_DEADLOCK FALSE
INVARIANTS
  InvestedMatches
PROPERTIES
  SquareOff
