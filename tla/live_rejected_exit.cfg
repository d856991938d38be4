CONSTANTS
  nifty = nifty
  bank = bank
  noSym = noSym
  consumer = consumer
  req1 = req1
  Symbols <- OneSymbol
  Nifty <- nifty
  NoSym <- noSym
  Consumer <- consumer
  Requests <- NoRequest
  MaxDecisions = 1
  MaxOrders = 2
  MaxMishaps = 1
SPECIFICATION Spec
CHECK_DEADLOCK FALSE
INVARIANT
  FailedExitKept
