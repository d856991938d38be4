CONSTANTS
  nifty = nifty
  bank = bank
  none = none
  job = job
  trigger = trigger
  Lead <- nifty
  Followers <- OtherSymbols
  Scans <- TwoScans
  None <- none
  Batch = 2
  MaxDecisions = 3
  MaxFaults = 1
SPECIFICATION BoundedSpec
CHECK_DEADLOCK FALSE
INVARIANTS
  HandledOnce
PROPERTIES
  MarkSticks
  NotOpposed
  Served
  ScanEnds
