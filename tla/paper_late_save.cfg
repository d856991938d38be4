CONSTANTS
  nifty = nifty
  bank = bank
  noSym = noSym
  consumer = consumer
  req1 = req1
  Symbols <- OneSymbol
  NoSym <- noSym
  Consumer <- consumer
  Requests <- NoRequest
  MaxDecisions = 1
  InitialBudget = 6
  SizePct = 90
  LotCosts <- OneLot
  LotCaps <- OneCap
  FlatFee = 1
  FeePct = 50
  Moves <- OnePnL
  PeakMax = 1
  MaxLate = 1
  MaxFaults = 0
SPECIFICATION Spec
CHECK_DEADLOCK FALSE
PROPERTIES
  ClosedIsFinal
