CONSTANTS
  nifty = nifty
  bank = bank
  noSym = noSym
  consumer = consumer
  req1 = req1
  Symbols <- OneSymbol
  Nifty <- nifty
  NoSym <- noSym
  Consumer <- consumer
  Requests <- OneRequest
  MaxDecisions = 1
  MaxOrders = 3
  MaxMishaps = 1
SPECIFICATION FairSpec
CHECK_DEADLOCK FALSE
INVARIANTS
  BookIsAccount
  RealizedOnce
  ClosedIffCounted
PROPERTIES
  ExternalCloseSeen
