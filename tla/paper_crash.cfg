CONSTANTS
  nifty = nifty
  bank = bank
  noSym = noSym
  consumer = consumer
  req1 = req1
  Symbols <- TwoSymbols
  NoSym <- noSym
  Consumer <- consumer
  Requests <- NoRequest
  MaxDecisions = 2
  InitialBudget = 6
  SizePct = 90
  LotCosts <- Lots
  LotCaps <- Caps
  FlatFee = 1
  FeePct = 50
  Moves <- PnLs
  PeakMax = 0
  MaxLate = 1
  MaxFaults = 1
SPECIFICATION Spec
CHECK_DEADLOCK FALSE
SYMMETRY SymbolSymmetry
INVARIANTS
  TypeOK
  BooksAgree
  IndexAgrees
PROPERTIES
  FollowsLedger
  RemovalPaid
  ClosedIsKept
  NoReentryAfterStop
