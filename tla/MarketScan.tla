----------------------------- MODULE MarketScan -----------------------------
(***************************************************************************)
(* CandleLog with what a scan computes from the bars it has fetched (Bars) *)
(* and publishes as market:{symbol} for simulation-engine and the chart.   *)
(* Minute First of CandleLog is the minute Clock of the IST day.           *)
(***************************************************************************)
EXTENDS CandleLog

CONSTANTS
  Clock,      \* minute of the IST day that First stands for
  Today,      \* its date
  TodayBars,  \* by minute of the day: the final 1-minute bar
  PastBars,   \* those of earlier days that the 500-bar fetch still returns
  Prev,       \* yesterday's high, low and close (get_previous_day_ohlc)
  Profile,    \* by slot: average volume
  Quotes      \* prices get_quote may return

B == INSTANCE Bars

MinuteBars ==
  [day : Int, min : Int, open : Nat \ {0}, high : Nat \ {0}, low : Nat \ {0}, close : Nat \ {0}, vol : Nat]

ASSUME ScanAssumption ==
  /\ Clock \in Int /\ Clock >= B!SessionStart
  /\ \A t \in B!SessionStart..(Clock + Last - First) :
       TodayBars[t] \in MinuteBars /\ TodayBars[t].min = t /\ TodayBars[t].day = Today
  /\ PastBars \in Seq(MinuteBars) /\ \A i \in DOMAIN PastBars : PastBars[i].day # Today
  /\ Prev \in [high : Nat \ {0}, low : Nat \ {0}, close : Nat \ {0}]
  /\ Quotes \subseteq Nat

VARIABLE snap   \* market:{symbol}, or NoSnapshot

scanVars   == <<vars, snap>>
NoSnapshot == [asOf |-> Never]

ClockOf(m) == Clock + m - First

(* A bar in its own minute, as Fyers shows it: its open, some volume.      *)
Begun(b) == [b EXCEPT !.high = b.open, !.low = b.open, !.close = b.open, !.vol = b.vol \div 2]

(* get_historical_candles in minute m: oldest first.                       *)
TodayShown(m) ==
  [i \in 1..(ClockOf(Newest(m)) - B!SessionStart + 1) |->
     LET b == TodayBars[B!SessionStart + i - 1]
     IN  IF b.min = ClockOf(m) THEN Begun(b) ELSE b]
Shown(m) == PastBars \o TodayShown(m)

(* The indicators of the snapshot.                                         *)
Indicators(m, ltp) ==
  LET five == B!AggregateTo5m(Shown(m))
      day  == B!DayRange(five, Today)
  IN  [day      |-> day,
       orb      |-> B!OrbOf(five, Today),
       near     |-> B!NearestLevels(ltp, Prev, day),
       cpr      |-> <<B!CprSignal(ltp, Prev), B!CprDay(Prev)>>,
       breakout |-> B!RangeBreakout(ltp, B!Consolidation(five)),
       rows     |-> B!PromptRows(five, Today),
       pattern  |-> B!PatternOf(B!PromptBars(five, Today)),
       volume   |-> B!Volume(five, B!DayOf(five, Today))]

(* The forming bar is looked at last: the bars are those of minute m, the  *)
(* clock may have moved on.                                                *)
FormingDelta(m, at) ==
  LET bars == B!FormingBars(Shown(m), ClockOf(at))
      slot == B!ProfileSlot(B!Head(bars).min)
      norm == IF slot \in DOMAIN Profile THEN Profile[slot] ELSE 0
  IN  IF bars = <<>> THEN 0
      ELSE B!ConfidenceDelta(bars, (ClockOf(at) - B!SessionStart) % 5, norm)

(* All that a scan of minute m, at its end in minute at, may publish.      *)
Snapshots ==
  {[asOf |-> m, at |-> at, ltp |-> ltp,
    ind |-> Indicators(m, ltp), delta |-> FormingDelta(m, at)] :
     m \in First..(Last + 1), at \in First..(Last + 1), ltp \in Quotes}

PublishSnapshot(s) ==
  /\ Publish(s)
  /\ snap' \in {x \in Snapshots : x.asOf = scan[s].asOf /\ x.at = now}

ScanInit == Init /\ snap = NoSnapshot

ScanNext ==
  \/ Log /\ UNCHANGED snap
  \/ \E s \in Scans : PublishSnapshot(s)

ScanSpec == ScanInit /\ [][ScanNext]_scanVars

-----------------------------------------------------------------------------
(* Properties.                                                             *)

(* calculate_day_range, get_nearest_levels and the volume are computed     *)
(* from 5-minute bars, which lose nothing: the day's range and volume are  *)
(* those of the 1-minute bars of today, although earlier days are among    *)
(* the bars, and "intraday DayHigh/DayLow" bound the entry proximity gate  *)
(* (pivots.py:63): a price inside the day's range has its resistance above *)
(* it, at most at the day's high, and its support below, at least at the   *)
(* day's low.  The forming bar moves the confidence by at most 22 points   *)
(* (prompts.py:312).                                                       *)
Exact(snapshot) ==
  LET one  == TodayShown(snapshot.asOf)
      day  == B!Span(one, DOMAIN one)
      near == snapshot.ind.near
      ltp  == snapshot.ltp
  IN  /\ snapshot.ind.day = day
      /\ snapshot.ind.volume = B!Volume(one, DOMAIN one)
      /\ ltp < day.high => near.resistance > 6 * ltp /\ near.resistance <= 6 * day.high
      /\ ltp >= day.low => near.support <= 6 * ltp /\ near.support >= 6 * day.low
      /\ snapshot.delta \in -22..22
SnapshotExact == [][snap' # snap => Exact(snap')]_snap

(* "the 09:15–09:30 opening range candles for today" (technicals.py:117):  *)
(* the range that a snapshot publishes is the span of today's 1-minute     *)
(* bars of before 09:30 that its scan was shown, although it is taken from *)
(* 5-minute bars: the bucket of 09:25 ends where the range does, no bar of *)
(* 09:30 or of an earlier day gets into it, and none is lost.              *)
Opening(bars) == {i \in DOMAIN bars : bars[i].min < B!SessionStart + 15}
OpeningRange ==
  snap # NoSnapshot =>
    LET one == TodayShown(snap.asOf) IN snap.ind.orb = B!Span(one, Opening(one))
=============================================================================
