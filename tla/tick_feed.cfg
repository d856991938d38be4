CONSTANTS
  index = index
  call = call
  put = put
  c1 = c1
  c2 = c2
  job = job
  noSocket = noSocket
  Underlyings <- Index
  Options <- OneOption
  Sockets <- TwoSockets
  NoSocket <- noSocket
  Reconcilers <- OneJob
  MaxTrades = 1
  MaxFaults = 1
SPECIFICATION FairSpec
CHECK_DEADLOCK FALSE
INVARIANTS
  OneSocket
  Streamed
PROPERTIES
  Recovers
  Converges
