---------------------------- MODULE SwingBacktest ----------------------------
(***************************************************************************)
(* The pipeline of equity-engine over the daily bars of one stock:         *)
(* features -> signals -> risk plan -> walk-forward backtest.  The screen  *)
(* runs the same stages on the newest bar.                                 *)
(*                                                                         *)
(* Prices are integers, in hundredths of a rupee as the features round     *)
(* them; percentages and conviction scores are in thousandths; divisions   *)
(* round down.  The lookbacks are constants, to be scaled down.  Left out: *)
(* the MACD, taken as the sign of the last move, the window of 750 days    *)
(* that the bars are cut to, and the ranking of many stocks.               *)
(***************************************************************************)
EXTENDS Integers, Sequences, SequencesExt

CONSTANTS
  Ema20, Ema50, Ema200,   \* 20, 50, 200
  Rsi14, Atr14,           \* 14, 14
  MinBars, Year, Month,   \* 60, 250; trading days of a month
  SwingWindow,            \* 5
  Warmup, Spare,          \* 200, 5
  MaxHold,                \* by setup: 15, 60
  Settings,               \* floors, stop multiples, capital and caps (config.py)
  Moves,                  \* what a day may bring, from the close before
  OpenPrice,
  MaxDays                 \* bound

(* A day's prices lie between its lowest and its highest; a move is of     *)
(* prices relative to the close before.                                    *)
Setups == {"SWING", "POSITIONAL"}
Prices == [open : Int, high : Int, low : Int, close : Int, vol : Nat]
Bars   == {b \in Prices : {b.open, b.close} \subseteq b.low..b.high}

ASSUME BacktestAssumption ==
  /\ {Ema20, Ema50, Ema200, Rsi14, Atr14, SwingWindow} \subseteq Nat \ {0}
  /\ {MinBars, Year, Month, Warmup, Spare, OpenPrice, MaxDays} \subseteq Nat \ {0}
  /\ Rsi14 < MinBars /\ Atr14 < MinBars /\ MinBars <= Warmup + 1
  /\ MaxHold \in [Setups -> Nat] /\ Moves \subseteq Bars
  /\ {Settings.minPrice, Settings.maxPrice, Settings.minTurnover, Settings.minRr,
      Settings.capital, Settings.riskPct, Settings.positionPct} \subseteq Nat
  /\ Settings.stopMult \in [Setups -> Nat]

Nothing == [none |-> TRUE]
Most(a, b)  == IF a > b THEN a ELSE b
Least(a, b) == IF a < b THEN a ELSE b
Unit(x)     == Most(0, Least(1000, x))
Mag(x)      == Most(x, -x)
LastOf(bs, k) == SubSeq(bs, Most(1, Len(bs) - k + 1), Len(bs))
TopOf(bs) == Max({bs[i].high : i \in DOMAIN bs})
LowOf(bs) == Min({bs[i].low : i \in DOMAIN bs})

-----------------------------------------------------------------------------
(* Features.                                                               *)

(* ema: seeded with the first close; 0 when there are too few.             *)
Ema(bs, period) ==
  IF Len(bs) < period THEN 0
  ELSE FoldLeft(LAMBDA e, b : (2 * b.close + (period - 1) * e) \div (period + 1),
                Head(bs).close, Tail(bs))

(* Wilder's averages: the mean of the first period values, then smoothed.  *)
Wilder(values, period) ==
  LET avg[k \in 0..Len(values)] ==
        IF k = 0 THEN 0
        ELSE IF k < period THEN avg[k - 1] + values[k]
        ELSE (avg[k - 1] * (IF k = period THEN 1 ELSE period - 1) + values[k]) \div period
  IN  avg[Len(values)]

Changes(bs) == [i \in 1..(Len(bs) - 1) |-> bs[i + 1].close - bs[i].close]

Rsi(bs) ==
  LET gain == Wilder([i \in DOMAIN Changes(bs) |-> Most(Changes(bs)[i], 0)], Rsi14)
      loss == Wilder([i \in DOMAIN Changes(bs) |-> Most(-Changes(bs)[i], 0)], Rsi14)
  IN  IF loss = 0 THEN 100 ELSE (100 * gain) \div (gain + loss)

TrueRange(b, close) ==
  Most(b.high - b.low, Most(Mag(b.high - close), Mag(b.low - close)))
Atr(bs) == Wilder([i \in 1..(Len(bs) - 1) |-> TrueRange(bs[i + 1], bs[i].close)], Atr14)

(* The central range of the month before, in sixths.                       *)
MonthOf(i) == (i - 1) \div Month
MonthlyCpr(bs, price) ==
  LET prior == SelectSeq([i \in DOMAIN bs |-> i], LAMBDA i : MonthOf(i) = MonthOf(Len(bs)) - 1)
      own   == [k \in DOMAIN prior |-> bs[prior[k]]]
      bc    == 3 * (TopOf(own) + LowOf(own))
      tc    == 4 * (TopOf(own) + LowOf(own) + Last(own).close) - bc
      pivot == (bc + tc) \div 2
  IN  IF prior = <<>> THEN Nothing
      ELSE [tc |-> tc \div 6, width |-> (Mag(tc - bc) * 1000) \div pivot,
            position |-> IF 6 * price > Most(tc, bc) THEN "ABOVE_CPR"
                         ELSE IF 6 * price < Least(tc, bc) THEN "BELOW_CPR" ELSE "INSIDE_CPR"]

(* Swing levels, clustered within 0.75% of the one before; the nearest     *)
(* cluster below the price, or 0.                                          *)
SwingLevels(bs) ==
  LET seg(i) == SubSeq(bs, i - SwingWindow, i + SwingWindow)
      at(i)  == (IF bs[i].high = TopOf(seg(i)) THEN <<bs[i].high>> ELSE <<>>)
                \o (IF bs[i].low = LowOf(seg(i)) THEN <<bs[i].low>> ELSE <<>>)
  IN  FlattenSeq([k \in 1..Most(0, Len(bs) - 2 * SwingWindow) |-> at(k + SwingWindow)])

ClusterLevels(levels) ==
  FoldLeft(LAMBDA cs, l :
             IF cs # <<>> /\ (l - Last(Last(cs))) * 10000 <= 75 * Last(Last(cs))
             THEN [cs EXCEPT ![Len(cs)] = Append(@, l)] ELSE Append(cs, <<l>>),
           <<>>, SortSeq(levels, LAMBDA a, b : a < b))

Support(bs, price) ==
  LET cs   == ClusterLevels(SwingLevels(bs))
      mean == {FoldLeft(LAMBDA a, v : a + v, 0, cs[k]) \div Len(cs[k]) : k \in DOMAIN cs}
      low  == {l \in mean : l < price}
  IN  IF low = {} THEN 0 ELSE Max(low)

Regime(price, e20, e50, e200) ==
  LET long  == IF e200 > 0 THEN e200 ELSE e50
      short == IF e20 > 0 THEN e20 ELSE e50
  IN  IF e50 = 0 THEN "RANGE"
      ELSE IF price > e50 /\ short >= e50 /\ e50 >= long /\ (short - long) * 100 >= long
      THEN "UPTREND"
      ELSE IF price < e50 /\ short <= e50 /\ e50 <= long /\ (long - short) * 100 >= long
      THEN "DOWNTREND" ELSE "RANGE"

(* build_features.                                                         *)
Features(bs) ==
  LET price  == Last(bs).close
      recent == LastOf(bs, 20)
      cpr    == MonthlyCpr(bs, price)
      e20    == Ema(bs, Ema20)  e50 == Ema(bs, Ema50)  e200 == Ema(bs, Ema200)
      top    == TopOf(LastOf(bs, Year))
      sup    == Support(bs, price)
  IN  IF Len(bs) < MinBars \/ price <= 0 \/ cpr = Nothing THEN Nothing
      ELSE [ltp |-> price, regime |-> Regime(price, e20, e50, e200),
            rsi |-> Rsi(bs), rising |-> price > bs[Len(bs) - 1].close,
            e20 |-> e20, e50 |-> e50, e200 |-> e200, atr |-> Atr(bs), cpr |-> cpr,
            turnover |-> FoldLeft(LAMBDA a, b : a + b.close * b.vol, 0, recent) \div Len(recent),
            fromTop |-> ((price - top) * 1000) \div top,
            overSupport |-> IF sup = 0 THEN 0 ELSE ((price - sup) * 1000) \div price]

-----------------------------------------------------------------------------
(* Signals: [strategy, setup, score]; one without a score is dropped.      *)

NoSignal == [strategy |-> "none", setup |-> "SWING", score |-> 0]

Classify(f) ==
  IF f.regime = "UPTREND" /\ f.e200 > 0 /\ f.ltp > f.e200 /\ f.e50 >= f.e200
     /\ f.atr * 1000 <= 35 * f.ltp
  THEN "POSITIONAL" ELSE "SWING"

TrendPullback(f) ==
  LET anchor == IF f.e20 > 0 THEN f.e20 ELSE f.ltp
      dist   == (Mag(f.ltp - anchor) * 1000) \div f.ltp
      trend  == IF f.e50 > 0 THEN Unit(((f.ltp - f.e50) * 20000) \div f.e50) ELSE 300
      score  == (4 * Unit(1000 - 25 * dist) + 3 * Unit(1000 - 50 * Mag(f.rsi - 48)) + 3 * trend) \div 10
  IN  IF f.regime = "UPTREND" /\ f.rsi \in 38..58 /\ (dist <= 40 \/ f.overSupport \in 0..40)
      THEN [strategy |-> "trend_pullback", setup |-> Classify(f), score |-> score] ELSE NoSignal

MonthlyCprReclaim(f) ==
  LET above == ((f.ltp - f.cpr.tc) * 1000) \div f.ltp
      mom   == (IF f.rising THEN 500 ELSE 0) + (IF f.rsi > 52 THEN 500 ELSE 0)
      score == (4 * Unit(1000 - 50 * f.cpr.width) + 3 * Unit(1000 - (25 * above) \div 2) + 3 * mom) \div 10
  IN  IF f.cpr.position = "ABOVE_CPR" /\ f.regime # "DOWNTREND"
      THEN [strategy |-> "monthly_cpr_break", setup |-> Classify(f), score |-> score] ELSE NoSignal

Breakout52w(f) ==
  LET mom   == (IF f.rising THEN 500 ELSE 0) + Unit((f.rsi - 50) * 50) \div 2
      score == (55 * Unit(1000 - (Mag(f.fromTop) * 50) \div 3) + 45 * mom) \div 100
  IN  IF f.regime # "DOWNTREND" /\ f.rsi >= 52 /\ f.fromTop >= -60
      THEN [strategy |-> "breakout_52w", score |-> score,
            setup |-> IF f.regime = "UPTREND" THEN "POSITIONAL" ELSE "SWING"] ELSE NoSignal

(* generate_signals, in the order of the registry, and max(): the first of *)
(* the best.                                                               *)
Better(a, b) == IF b.score > a.score THEN b ELSE a
Best(f) == Better(Better(TrendPullback(f), MonthlyCprReclaim(f)), Breakout52w(f))

PassesLiquidity(f) ==
  f.ltp >= Settings.minPrice /\ f.ltp <= Settings.maxPrice /\ f.turnover >= Settings.minTurnover

(* build_plan.                                                             *)
BuildPlan(f, signal) ==
  LET risk   == Settings.stopMult[signal.setup] * f.atr
      budget == (Settings.capital * Settings.riskPct) \div 100
      cap    == (Settings.capital * Settings.positionPct) \div 100
      qty    == IF risk > 0 THEN Least(budget \div risk, cap \div f.ltp) ELSE 0
  IN  IF f.atr <= 0 \/ f.ltp - risk <= 0 \/ 20 < Settings.minRr \/ qty <= 0 THEN Nothing
      ELSE [setup |-> signal.setup, entry |-> f.ltp, stop |-> f.ltp - risk,
            target |-> f.ltp + 2 * risk, qty |-> qty]

(* The plan at the close of the last of bs, or none.                       *)
PlanOf(f) ==
  IF f = Nothing THEN Nothing
  ELSE IF ~PassesLiquidity(f) \/ Best(f).score <= 0 THEN Nothing
  ELSE BuildPlan(f, Best(f))
PlanAt(bs) == PlanOf(Features(bs))

-----------------------------------------------------------------------------
(* The backtest.                                                           *)

(* _simulate: the first bar, from the entry on, at which the position ends.*)
Ending(bs, entry, plan, stopFirst) ==
  LET hold == MaxHold[plan.setup]
      stop(b)   == b.low <= plan.stop
      target(b) == b.high >= plan.target
      ends == {j \in entry..Len(bs) : stop(bs[j]) \/ target(bs[j]) \/ j - entry >= hold}
      j    == IF ends = {} THEN Len(bs) ELSE Min(ends)
  IN  IF stop(bs[j]) /\ (stopFirst \/ ~target(bs[j]))
      THEN [at |-> j, price |-> plan.stop, reason |-> "STOP"]
      ELSE IF target(bs[j]) THEN [at |-> j, price |-> plan.target, reason |-> "TARGET"]
      ELSE [at |-> j, price |-> bs[j].close, reason |-> IF ends = {} THEN "EOD" ELSE "TIME"]

EndTargetFirst(bs, entry, plan) == Ending(bs, entry, plan, FALSE)
EndAt(bs, entry, plan) == Ending(bs, entry, plan, TRUE)

(* What the signal of day i has seen: bars[:i+1], i counted from 0.        *)
SeenAll(bs, i) == bs
Seen(bs, i) == SubSeq(bs, 1, i)

(* backtest_symbol: one position at a time; entered at the next open,      *)
(* unless that gapped below the stop.                                      *)
Enters(bs, i, plan) == plan # Nothing /\ bs[i + 1].open > plan.stop
RoundTrip(bs, i, plan, end) ==
  [signal |-> i, entryAt |-> i + 1, entry |-> bs[i + 1].open,
   stop |-> plan.stop, target |-> plan.target, setup |-> plan.setup, qty |-> plan.qty,
   exitAt |-> end.at, exit |-> end.price, reason |-> end.reason]

(* so: the trades so far, and the first day the next signal may be of.     *)
Begin == [trades |-> <<>>, free |-> Warmup + 1]
Advance(bs, so, i) ==
  LET plan == PlanAt(Seen(bs, i))
      end  == EndAt(bs, i + 1, plan)
  IN  IF i < so.free \/ ~Enters(bs, i, plan) THEN so
      ELSE [trades |-> Append(so.trades, RoundTrip(bs, i, plan, end)), free |-> end.at + 1]

Backtest(bs) ==
  LET walk[i \in 0..(Len(bs) - 1)] == IF i = 0 THEN Begin ELSE Advance(bs, walk[i - 1], i)
  IN  walk[Len(bs) - 1].trades

(* run_backtest passes over a stock with too few bars.                     *)
RunBacktest(bs) == IF Len(bs) < Warmup + Spare THEN <<>> ELSE Backtest(bs)

-----------------------------------------------------------------------------
VARIABLES
  bars,     \* the daily bars so far
  backtest  \* what run_backtest says of them

testVars == <<bars, backtest>>

FirstBars ==
  [i \in 1..Warmup |-> [open |-> OpenPrice, high |-> OpenPrice + 50, low |-> OpenPrice - 50,
                        close |-> OpenPrice, vol |-> 10]]

TestInit == bars = FirstBars /\ backtest = RunBacktest(FirstBars)

Day(move) ==
  LET c == Last(bars).close
  IN  [open |-> c + move.open, high |-> c + move.high, low |-> c + move.low,
       close |-> c + move.close, vol |-> move.vol]

TestNext ==
  \E move \in Moves :
    /\ Len(bars) < MaxDays
    /\ bars' = Append(bars, Day(move))
    /\ backtest' = RunBacktest(bars')

TestSpec == TestInit /\ [][TestNext]_testVars

-----------------------------------------------------------------------------
(* Properties.                                                             *)

Touched(b, t) == b.low <= t.stop \/ b.high >= t.target

(* What the report calls an edge rests on this: positions do not overlap,  *)
(* each is entered at the first open after its signal, held for at most    *)
(* its bucket's days, ended at the first bar that touches its stop or      *)
(* target -- at the stop if it touches both, "conservative on same-day     *)
(* touches" (engine.py:9) -- and sized so that the stop loses at most the  *)
(* budget planned.  No trade loses more than its distance to the stop; a   *)
(* bar that opens beyond it is filled at the stop, a price it never saw.   *)
BacktestSound ==
  \A k \in DOMAIN backtest :
    LET t == backtest[k]
    IN  /\ k > 1 => backtest[k - 1].exitAt < t.signal
        /\ t.entryAt = t.signal + 1 /\ t.exitAt - t.entryAt <= MaxHold[t.setup]
        /\ \A j \in t.entryAt..(t.exitAt - 1) : ~Touched(bars[j], t)
        /\ bars[t.exitAt].low <= t.stop <=> t.reason = "STOP"
        /\ t.stop < t.entry /\ t.exit >= t.stop
        /\ t.qty * (bars[t.signal].close - t.stop) * 100 <= Settings.capital * Settings.riskPct

(* "no lookahead" (engine.py:5): a new bar changes no trade that was       *)
(* closed without it.                                                      *)
NoLookahead ==
  [][\A k \in DOMAIN backtest :
       backtest[k].reason # "EOD" => k \in DOMAIN backtest' /\ backtest'[k] = backtest[k]]_testVars
=============================================================================
