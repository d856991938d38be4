CONSTANTS
  screener = screener
  analysis = analysis
  Readers = {screener, analysis}
  Limit <- LimitOf
  Slack = 1
  TopUp = 2
  Chunk = 2
  TradingDays <- Weekdays
  FirstDay = 4
  LastDay = 7
  MaxMisses = 2
  Orders = {first, second}
  Stocks = {stock}
  Refreshes = {refreshA, refreshB}
  MaxQty = 2
  MaxTrades = 2
  MaxBreaks = 1
  Ema20 = 2
  Ema50 = 4
  Ema200 = 6
  Rsi14 = 3
  Atr14 = 2
  MinBars = 4
  Year = 5
  Month = 3
  SwingWindow = 1
  Warmup = 4
  Spare = 2
  MaxHold <- Hold
  Settings <- Config
  Moves <- DailyMoves
  OpenPrice = 10000
  MaxDays = 10
SPECIFICATION EquitySpec
SYMMETRY DeskSymmetry
CHECK_DEADLOCK FALSE
INVARIANTS
  BacktestSound
  BarsSound
  DeskSound
PROPERTIES
  NoLookahead
